---- MODULE Spec2Model ----
(***************************************************************************)
(* Model of the Rust binding generator of the FlatBuffers schema compiler  *)
(* (src/chrono_thirdparty/flatbuffers/src/idl_gen_rust.cpp):               *)
(*   - GetFullType, the classifier of schema types;                        *)
(*   - the namespace resolver (GetRelativeNamespaceTraversal,              *)
(*     SetNameSpace) and the emission driver generate();                   *)
(*   - the table emitter's per-field shape decisions.                      *)
(* Strings that the generator converts (MakeSnakeCase) are sequences of    *)
(* one-character strings, so that the conversion is computed, not assumed. *)
(***************************************************************************)
EXTENDS Integers, Sequences, FiniteSets, TLC

VARIABLES
    ndebug,           \* build configuration: TRUE when FLATBUFFERS_ASSERT compiles to nothing
    type,             \* classifier: the Type handed to GetFullType
    full_type,        \* classifier: the value GetFullType returned ("unset" before the call)
    src,              \* resolver: source namespace of GetRelativeNamespaceTraversal
    dst,              \* resolver: destination namespace of GetRelativeNamespaceTraversal
    stream,           \* resolver: the returned traversal, a sequence of characters
    parser_,          \* driver: the parsed schema (namespaces_, enums_, structs_, root_struct_def_)
    cur_name_space_,  \* driver: index into parser_.namespaces_, 0 = nullptr
    code_,            \* driver: the output accumulated so far, a sequence of emitted items
    pc,               \* driver: position inside generate()
    ns_it,            \* driver: iterator of the namespace loop
    saved,            \* driver: TRUE once SaveFile has written code_
    field,            \* table emitter: the FieldDef being emitted
    accessor,         \* table emitter: the accessor emitted for field
    add_func,         \* table emitter: the builder add-operation emitted for field
    gen_table,        \* GenTable: its argument struct_def, the table being generated
    table_code,       \* GenTable: the emitted create(), finish() and verifier of gen_table
    builder,          \* generated table builder at run time: slots written, result of finish()
    verify,           \* generated union verifier at run time: discriminant, payload, verdict
    gen_struct,       \* GenStruct: its argument struct_def, the fixed struct being generated
    struct_code,      \* GenStruct: the emitted blob size and the offsets in getters and setters
    object,           \* generated fixed struct at run time: its bytes, the last call on it
    gen_enum,         \* GenEnum: its argument enum_def
    enum_code,        \* GenEnum: the items emitted for gen_enum
    lookup,           \* generated enum at run time: the last variant_name / fmt call
    root_opts,        \* GenRootTableFuncs: parser_.file_identifier_ and parser_.file_extension_
    root_code,        \* GenRootTableFuncs: the items emitted for the root table
    root_buf,         \* generated finish_<root>_buffer at run time: the identifier stamped
    kw_name,          \* EscapeKeyword: its argument
    kw_out,           \* EscapeKeyword: the name it returned
    union_field,      \* GenTable: a union value field, its name and the variants of its enum
    union_idents      \* GenTable: the identifiers defined and referred to for union_field

vars == <<ndebug, type, full_type, src, dst, stream, parser_, cur_name_space_,
          code_, pc, ns_it, saved, field, accessor, add_func,
          gen_table, table_code, builder, verify,
          gen_struct, struct_code, object, gen_enum, enum_code, lookup,
          root_opts, root_code, root_buf, kw_name, kw_out, union_field,
          union_idents>>

classifierVars == <<type, full_type>>
resolverVars == <<src, dst, stream>>
driverVars == <<parser_, cur_name_space_, code_, pc, ns_it, saved>>
fixedVars == <<gen_struct, struct_code, object>>
enumVars == <<gen_enum, enum_code, lookup>>
rootVars == <<root_opts, root_code, root_buf>>
keywordVars == <<kw_name, kw_out>>
identVars == <<union_field, union_idents>>
lateVars == <<rootVars, keywordVars, identVars>>
genVars == <<gen_table, table_code, builder, verify, fixedVars, enumVars, lateVars>>
tableVars == <<field, accessor, add_func, genVars>>

(***************************************************************************)
(* Characters and MakeSnakeCase                                            *)
(***************************************************************************)

LowerChars == {"a", "b", "c", "d", "e", "g", "m", "y"}

islower(c) == c \in LowerChars

CharToLower(c) ==
    CASE c = "A" -> "a"
      [] c = "B" -> "b"
      [] c = "C" -> "c"
      [] c = "D" -> "d"
      [] c = "E" -> "e"
      [] c = "G" -> "g"
      [] c = "M" -> "m"
      [] c = "Y" -> "y"
      [] OTHER -> c

RECURSIVE SnakeFrom(_, _)
\* The loop body of MakeSnakeCase for the characters in[i..], 1-based.
SnakeFrom(in, i) ==
    IF i > Len(in) THEN <<>>
    ELSE LET rest == SnakeFrom(in, i + 1) IN
         IF i = 1 THEN <<CharToLower(in[1])>> \o rest
         ELSE IF in[i] = "_" THEN <<"_">> \o rest
         ELSE IF ~islower(in[i]) THEN
              (IF islower(in[i - 1]) THEN <<"_">> ELSE <<>>)
                  \o <<CharToLower(in[i])>> \o rest
         ELSE <<in[i]>> \o rest

MakeSnakeCase(in) == SnakeFrom(in, 1)

(***************************************************************************)
(* Schema types and GetFullType                                            *)
(***************************************************************************)

BaseTypes == {"NONE", "UTYPE", "BOOL", "CHAR", "UCHAR", "SHORT", "USHORT", "INT",
              "UINT", "LONG", "ULONG", "FLOAT", "DOUBLE", "STRING", "VECTOR",
              "STRUCT", "UNION", "ARRAY"}

IsBool(t) == t = "BOOL"

IsInteger(t) == t \in {"UTYPE", "BOOL", "CHAR", "UCHAR", "SHORT", "USHORT", "INT",
                       "UINT", "LONG", "ULONG"}

IsFloat(t) == t \in {"FLOAT", "DOUBLE"}

IsScalar(t) == IsInteger(t) \/ IsFloat(t)

IsString(ty) == ty.base_type = "STRING"

IsVector(ty) == ty.base_type = "VECTOR"

\* Type::VectorType(): the element type keeps the struct_def and enum_def.
VectorType(ty) ==
    [base_type |-> ty.element, element |-> "NONE",
     struct_def |-> ty.struct_def, enum_def |-> ty.enum_def]

FullTypes == {"ftInteger", "ftFloat", "ftBool", "ftStruct", "ftTable", "ftEnumKey",
              "ftUnionKey", "ftUnionValue", "ftString", "ftVectorOfInteger",
              "ftVectorOfFloat", "ftVectorOfBool", "ftVectorOfEnumKey",
              "ftVectorOfStruct", "ftVectorOfTable", "ftVectorOfString",
              "ftVectorOfUnionValue"}

\* FLATBUFFERS_ASSERT(false && ...) inside GetFullType: the process aborts when
\* assertions are compiled in; with NDEBUG control falls through to the final
\* `return ftBool`.
AssertFalse(nd) == IF nd THEN "ftBool" ELSE "abort"

VectorSwitch_NoString(e, nd) ==
    CASE e = "ftInteger" -> "ftVectorOfInteger"
      [] e = "ftFloat" -> "ftVectorOfFloat"
      [] e = "ftBool" -> "ftVectorOfBool"
      [] e = "ftStruct" -> "ftVectorOfStruct"
      [] e = "ftTable" -> "ftVectorOfTable"
      [] e = "ftEnumKey" -> "ftVectorOfEnumKey"
      [] OTHER -> AssertFalse(nd)

\* The switch over the element's tag in the vector branch.
VectorSwitch(e, nd) ==
    CASE e = "ftInteger" -> "ftVectorOfInteger"
      [] e = "ftFloat" -> "ftVectorOfFloat"
      [] e = "ftBool" -> "ftVectorOfBool"
      [] e = "ftStruct" -> "ftVectorOfStruct"
      [] e = "ftTable" -> "ftVectorOfTable"
      [] e = "ftString" -> "ftVectorOfString"
      [] e = "ftEnumKey" -> "ftVectorOfEnumKey"
      [] e \in {"ftUnionKey", "ftUnionValue"} -> AssertFalse(nd)
      [] OTHER -> AssertFalse(nd)

RECURSIVE GetFullType(_, _)

GetFullType_EnumBeforeVector(ty, nd) ==
    IF IsString(ty) THEN "ftString"
    ELSE IF ty.base_type = "STRUCT" THEN
        (IF ty.struct_def = "fixed" THEN "ftStruct" ELSE "ftTable")
    ELSE IF ty.enum_def # "null" THEN
        (IF ty.enum_def = "union" THEN
            (IF ty.base_type = "UNION" THEN "ftUnionValue"
             ELSE IF IsInteger(ty.base_type) THEN "ftUnionKey"
             ELSE AssertFalse(nd))
         ELSE "ftEnumKey")
    ELSE IF IsVector(ty) THEN VectorSwitch(GetFullType(VectorType(ty), nd), nd)
    ELSE IF IsScalar(ty.base_type) THEN
        (IF IsBool(ty.base_type) THEN "ftBool"
         ELSE IF IsInteger(ty.base_type) THEN "ftInteger"
         ELSE IF IsFloat(ty.base_type) THEN "ftFloat"
         ELSE AssertFalse(nd))
    ELSE AssertFalse(nd)

\* GetFullType(type) in a build whose NDEBUG setting is nd.  The result is a
\* FullType, or "abort" when an assertion stopped the process.
GetFullType(ty, nd) ==
    IF IsString(ty) THEN "ftString"
    ELSE IF ty.base_type = "STRUCT" THEN
        (IF ty.struct_def = "fixed" THEN "ftStruct" ELSE "ftTable")
    ELSE IF IsVector(ty) THEN VectorSwitch(GetFullType(VectorType(ty), nd), nd)
    ELSE IF ty.enum_def # "null" THEN
        (IF ty.enum_def = "union" THEN
            (IF ty.base_type = "UNION" THEN "ftUnionValue"
             ELSE IF IsInteger(ty.base_type) THEN "ftUnionKey"
             ELSE AssertFalse(nd))
         ELSE "ftEnumKey")
    ELSE IF IsScalar(ty.base_type) THEN
        (IF IsBool(ty.base_type) THEN "ftBool"
         ELSE IF IsInteger(ty.base_type) THEN "ftInteger"
         ELSE IF IsFloat(ty.base_type) THEN "ftFloat"
         ELSE AssertFalse(nd))
    ELSE AssertFalse(nd)

\* The Type values handed to the classifier: every combination of base type,
\* element type, struct reference and enum reference in which a struct is
\* referenced exactly by the types of base or element type STRUCT, and only
\* a vector has an element type.
SchemaTypes ==
    {ty \in [base_type : BaseTypes, element : BaseTypes,
             struct_def : {"null", "fixed", "table"},
             enum_def : {"null", "enum", "union"}] :
        /\ (ty.element # "NONE") => (ty.base_type = "VECTOR")
        /\ (ty.struct_def # "null") <=>
               (ty.base_type = "STRUCT" \/ ty.element = "STRUCT")}

(***************************************************************************)
(* Namespaces: a Namespace is its `components`, a sequence of names        *)
(***************************************************************************)

A == <<"A">>

B == <<"B">>

C == <<"C">>

D == <<"D">>

E == <<"E">>

MyG == <<"M", "y", "G">>

Components == {A, B, C, D, E, MyG}

\* The names the components of the source namespace are taken from.
SrcComponents == {A, B, C}

SuperTok == <<"s", "u", "p", "e", "r", ":", ":">>

ColonColon == <<":", ":">>

RECURSIVE CommonPrefixFrom(_, _, _)
\* The first loop of GetRelativeNamespaceTraversal: s and d advance together
\* while both have a component left and the components are equal; i counts
\* the components passed.
CommonPrefixFrom(s, d, i) ==
    IF i = Len(s) THEN i
    ELSE IF i = Len(d) THEN i
    ELSE IF s[i + 1] # d[i + 1] THEN i
    ELSE CommonPrefixFrom(s, d, i + 1)

RECURSIVE SuperLoop(_, _)
\* for (; s != src->components.end(); ++s) stream << "super::"
SuperLoop(s, i) ==
    IF i >= Len(s) THEN <<>> ELSE SuperTok \o SuperLoop(s, i + 1)

RECURSIVE DstLoop(_, _)
\* for (; d != dst->components.end(); ++d) stream << MakeSnakeCase(*d) + "::"
DstLoop(d, i) ==
    IF i >= Len(d) THEN <<>>
    ELSE MakeSnakeCase(d[i + 1]) \o ColonColon \o DstLoop(d, i + 1)

GetRelativeNamespaceTraversal_Absolute(s, d) ==
    ColonColon \o DstLoop(d, 0)

GetRelativeNamespaceTraversal_NoSnake(s, d) ==
    LET i == CommonPrefixFrom(s, d, 0)
        RECURSIVE Raw(_)
        Raw(k) == IF k >= Len(d) THEN <<>> ELSE d[k + 1] \o ColonColon \o Raw(k + 1)
    IN  SuperLoop(s, i) \o Raw(i)

GetRelativeNamespaceTraversal(s, d) ==
    LET i == CommonPrefixFrom(s, d, 0)
    IN  SuperLoop(s, i) \o DstLoop(d, i)

(***************************************************************************)
(* Values the variables of the other components keep while one component  *)
(* is exercised                                                            *)
(***************************************************************************)

NoType == [base_type |-> "NONE", element |-> "NONE", struct_def |-> "null",
           enum_def |-> "null"]

NoParser == [namespaces_ |-> <<>>, enums_ |-> <<>>, structs_ |-> <<>>,
             root_struct_def_ |-> 0]

NoField == [type |-> NoType, optional |-> FALSE, required |-> FALSE,
            deprecated |-> FALSE, constant |-> <<"0">>, enum_vals |-> {}]

NoBody == [default_value |-> <<>>, safe_slice |-> FALSE, unwrap |-> FALSE]

\* What the table emitter has written for `field`: nothing yet ("unset"),
\* nothing because the field is deprecated ("skipped"), the text ("emitted"),
\* or nothing because the process was aborted ("abort").
Accessor(st, rt, body) == [status |-> st, return_type |-> rt, body |-> body]

AddFunc(st, fn, args) == [status |-> st, func_body |-> fn, args |-> args]

ClassifierIdle == type = NoType /\ full_type = "unset"

\* The value of `stream` before the call; no traversal contains "?".
NotCalled == <<"?">>

ResolverIdle == src = <<>> /\ dst = <<>> /\ stream = NotCalled

DriverIdle ==
    /\ parser_ = NoParser
    /\ cur_name_space_ = 0
    /\ code_ = <<>>
    /\ pc = "idle"
    /\ ns_it = 0
    /\ saved = FALSE

FieldIdle ==
    /\ field = NoField
    /\ accessor = Accessor("unset", <<>>, NoBody)
    /\ add_func = AddFunc("unset", <<>>, <<>>)

NoStructDef == [fields |-> <<>>, sortbysize |-> FALSE]

NoTableCode == [status |-> "unset", create |-> <<>>, create_fn |-> <<>>,
                finish |-> <<>>, verifier |-> <<>>]

NoBuilder == [added |-> {}, slots |-> {}, result |-> "none"]

NoVerify == [step |-> 0, key |-> 0, payload |-> 0, inspected |-> FALSE,
             result |-> "none"]

NoValue == [int |-> 0, bytes |-> <<>>]

NoFixedDef == [fields |-> <<>>, bytesize |-> 0]

NoStructCode == [status |-> "unset", size |-> 0, fields |-> <<>>]

NoObject == [status |-> "none", bytes |-> <<>>, args |-> <<>>, before |-> <<>>,
             set_field |-> 0, set_value |-> NoValue, got |-> <<>>]

FixedIdle ==
    /\ gen_struct = NoFixedDef
    /\ struct_code = NoStructCode
    /\ object = NoObject

NoEnumDef == [vals |-> {}, is_union |-> FALSE, bit_flags |-> FALSE]

NoEnumCode == [status |-> "unset", items |-> <<>>, arms |-> <<>>]

NoLookup == [status |-> "none", arg |-> 0, name |-> <<>>, debug |-> <<>>]

EnumIdle ==
    /\ gen_enum = NoEnumDef
    /\ enum_code = NoEnumCode
    /\ lookup = NoLookup

TableGenIdle ==
    /\ gen_table = NoStructDef
    /\ table_code = NoTableCode
    /\ builder = NoBuilder
    /\ verify = NoVerify

NoRootOpts == [file_identifier_ |-> <<>>, file_extension_ |-> <<>>]

NoRootCode == [status |-> "unset", items |-> <<>>]

NoRootBuf == [status |-> "none", size_prefixed |-> FALSE, identifier |-> <<>>]

RootIdle ==
    /\ root_opts = NoRootOpts
    /\ root_code = NoRootCode
    /\ root_buf = NoRootBuf

KeywordIdle ==
    /\ kw_name = <<>>
    /\ kw_out = <<"?">>

NoUnionField == [name |-> <<>>, variants |-> {}]

NoUnionIdents == [status |-> "unset", defined |-> {}, referred |-> {}]

IdentIdle ==
    /\ union_field = NoUnionField
    /\ union_idents = NoUnionIdents

LateIdle == RootIdle /\ KeywordIdle /\ IdentIdle

GenIdle == TableGenIdle /\ FixedIdle /\ EnumIdle /\ LateIdle

TableIdle == FieldIdle /\ GenIdle

(***************************************************************************)
(* The classifier applied to every schema type, in both builds             *)
(***************************************************************************)

ClassifierInit ==
    /\ ndebug \in BOOLEAN
    /\ type \in SchemaTypes
    /\ full_type = "unset"
    /\ ResolverIdle /\ DriverIdle /\ TableIdle

\* One call GetFullType(type).
Classify ==
    /\ full_type = "unset"
    /\ full_type' = GetFullType(type, ndebug)
    /\ UNCHANGED <<ndebug, type, resolverVars, driverVars, tableVars>>

ClassifierNext == Classify

SpecClassifier == ClassifierInit /\ [][ClassifierNext]_vars

\* The types C1 lists as representable.
IsPlainScalarType(ty) ==
    /\ IsScalar(ty.base_type) /\ ty.base_type # "UTYPE"
    /\ ty.enum_def = "null" /\ ty.struct_def = "null" /\ ty.element = "NONE"

IsPlainEnumType(ty) ==
    /\ IsInteger(ty.base_type) /\ ty.base_type # "UTYPE"
    /\ ty.enum_def = "enum" /\ ty.struct_def = "null" /\ ty.element = "NONE"

IsUnionKeyType(ty) ==
    /\ ty.base_type = "UTYPE" /\ ty.enum_def = "union"
    /\ ty.struct_def = "null" /\ ty.element = "NONE"

IsUnionValueType(ty) ==
    /\ ty.base_type = "UNION" /\ ty.enum_def = "union"
    /\ ty.struct_def = "null" /\ ty.element = "NONE"

IsStringType(ty) ==
    /\ ty.base_type = "STRING" /\ ty.enum_def = "null"
    /\ ty.struct_def = "null" /\ ty.element = "NONE"

IsStructOrTableType(ty) ==
    /\ ty.base_type = "STRUCT" /\ ty.enum_def = "null"
    /\ ty.struct_def # "null" /\ ty.element = "NONE"

IsVectorOfSupported(ty) ==
    /\ ty.base_type = "VECTOR"
    /\ \/ IsPlainScalarType(VectorType(ty))
       \/ IsPlainEnumType(VectorType(ty))
       \/ IsStringType(VectorType(ty))
       \/ IsStructOrTableType(VectorType(ty))

Representable(ty) ==
    \/ IsPlainScalarType(ty) \/ IsPlainEnumType(ty) \/ IsUnionKeyType(ty)
    \/ IsUnionValueType(ty) \/ IsStringType(ty) \/ IsStructOrTableType(ty)
    \/ IsVectorOfSupported(ty)

\* C1: for every representable schema type GetFullType returns a FullType tag
\* and reaches no failure branch.  An assertion that fires shows as "abort"
\* in the builds with assertions, which take the same path as the NDEBUG
\* builds up to the assertion; the tag is a function of the type alone.
C1_Total ==
    (full_type # "unset" /\ Representable(type))
        => (full_type \in FullTypes /\ full_type # "ftVectorOfUnionValue")

C1_Witness ==
    /\ full_type = "ftVectorOfString"
    /\ IsVectorOfSupported(type)
    /\ ~ndebug

\* C2: the tag is decided by priority: string, struct base type, vector,
\* enum reference, scalar kind.  A vector whose element references an enum is
\* ftVectorOfEnumKey, and an integer or bool type with a non-union enum is
\* ftEnumKey.
C2_Priority ==
    full_type # "unset" =>
        LET b == type.base_type
            e == type.element
            en == type.enum_def
        IN  /\ b = "STRING" => full_type = "ftString"
            /\ (b = "STRUCT" /\ type.struct_def = "fixed") => full_type = "ftStruct"
            /\ (b = "STRUCT" /\ type.struct_def = "table") => full_type = "ftTable"
            /\ (b = "VECTOR" /\ e = "STRING") => full_type = "ftVectorOfString"
            /\ (b = "VECTOR" /\ e = "STRUCT" /\ type.struct_def = "fixed")
                   => full_type = "ftVectorOfStruct"
            /\ (b = "VECTOR" /\ e = "STRUCT" /\ type.struct_def = "table")
                   => full_type = "ftVectorOfTable"
            /\ (b = "VECTOR" /\ IsScalar(e) /\ en = "enum")
                   => full_type = "ftVectorOfEnumKey"
            /\ (b = "VECTOR" /\ e = "BOOL" /\ en = "null")
                   => full_type = "ftVectorOfBool"
            /\ (b = "VECTOR" /\ IsInteger(e) /\ e # "BOOL" /\ en = "null")
                   => full_type = "ftVectorOfInteger"
            /\ (b = "VECTOR" /\ IsFloat(e) /\ en = "null")
                   => full_type = "ftVectorOfFloat"
            /\ (b = "UNION" /\ en = "union") => full_type = "ftUnionValue"
            /\ (IsInteger(b) /\ en = "union") => full_type = "ftUnionKey"
            /\ (IsScalar(b) /\ en = "enum") => full_type = "ftEnumKey"
            /\ (b = "BOOL" /\ en = "null") => full_type = "ftBool"
            /\ (IsInteger(b) /\ b # "BOOL" /\ en = "null") => full_type = "ftInteger"
            /\ (IsFloat(b) /\ en = "null") => full_type = "ftFloat"

C2_Witness ==
    /\ full_type = "ftVectorOfEnumKey"
    /\ type.base_type = "VECTOR" /\ type.element = "INT" /\ type.enum_def = "enum"

\* The vectors C3 is about: the element is a union discriminant, a union
\* value, or a vector.
IsUnsupportedVector(ty) ==
    /\ ty.base_type = "VECTOR"
    /\ \/ IsUnionKeyType(VectorType(ty))
       \/ IsUnionValueType(VectorType(ty))
       \/ ty.element = "VECTOR"

\* C3: classifying a vector of union discriminants, of union values or of
\* vectors always ends in a generation failure and never returns a tag.
C3_UnsupportedVectorFails ==
    (full_type # "unset" /\ IsUnsupportedVector(type)) => full_type = "abort"

(***************************************************************************)
(* The resolver's relative reference applied to every pair of namespaces   *)
(***************************************************************************)

MaxSrcDepth == 3

MaxDstDepth == 3

NsPathsUpTo(S, n) == UNION {[1..k -> S] : k \in 0..n}

ResolverInit ==
    /\ ndebug = FALSE
    /\ src \in NsPathsUpTo(SrcComponents, MaxSrcDepth)
    /\ dst \in NsPathsUpTo(Components, MaxDstDepth)
    /\ stream = NotCalled
    /\ ClassifierIdle /\ DriverIdle /\ TableIdle

\* One call GetRelativeNamespaceTraversal(src, dst).
Traverse ==
    /\ stream = NotCalled
    /\ stream' = GetRelativeNamespaceTraversal(src, dst)
    /\ UNCHANGED <<ndebug, src, dst, classifierVars, driverVars, tableVars>>

ResolverNext == Traverse

SpecResolver == ResolverInit /\ [][ResolverNext]_vars

\* Length of the longest common prefix of two paths.
LongestCommonPrefix(p, q) ==
    CHOOSE n \in 0..Len(p) :
        /\ n <= Len(q)
        /\ \A k \in 1..n : p[k] = q[k]
        /\ (n < Len(p) /\ n < Len(q)) => p[n + 1] # q[n + 1]

RECURSIVE SplitFrom(_, _, _)
\* The path segments of a traversal: the texts that end at each "::".
SplitFrom(s, i, seg) ==
    IF i > Len(s) THEN (IF seg = <<>> THEN <<>> ELSE <<seg>>)
    ELSE IF s[i] = ":" /\ i < Len(s) /\ s[i + 1] = ":"
         THEN <<seg>> \o SplitFrom(s, i + 2, <<>>)
    ELSE SplitFrom(s, i + 1, Append(seg, s[i]))

Segments(s) == SplitFrom(s, 1, <<>>)

RECURSIVE Join(_)
Join(segs) == IF segs = <<>> THEN <<>> ELSE Head(segs) \o ColonColon \o Join(Tail(segs))

Super == <<"s", "u", "p", "e", "r">>

\* The Rust module path of a namespace.
ModulePath(ns) == [k \in 1..Len(ns) |-> MakeSnakeCase(ns[k])]

RECURSIVE Follow(_, _)
\* The module reached from module path `at` by a relative path: `super`
\* leaves the innermost module, any other segment enters a child module.
Follow(at, segs) ==
    IF segs = <<>> THEN at
    ELSE IF Head(segs) = Super
         THEN (IF at = <<>> THEN <<<<"!">>>> ELSE Follow(SubSeq(at, 1, Len(at) - 1), Tail(segs)))
    ELSE Follow(Append(at, Head(segs)), Tail(segs))

Chars_super_d == <<"s", "u", "p", "e", "r", ":", ":", "d", ":", ":">>

Chars_super3_d_e ==
    <<"s", "u", "p", "e", "r", ":", ":", "s", "u", "p", "e", "r", ":", ":",
      "s", "u", "p", "e", "r", ":", ":", "d", ":", ":", "e", ":", ":">>

Item(k, n, d) == [kind |-> k, name |-> n, def |-> d]

\* ns ? ns->components : (no components)
ComponentsOf(namespaces, ns) == IF ns = 0 THEN <<>> ELSE namespaces[ns]

RECURSIVE CommonPrefixSize(_, _, _)
\* The while loop of SetNameSpace.
CommonPrefixSize(old, new, n) ==
    IF n < Len(old) /\ n < Len(new) /\ new[n + 1] = old[n + 1]
    THEN CommonPrefixSize(old, new, n + 1)
    ELSE n

CloseLoop_OneLevel(old, j, cps) ==
    IF j > cps THEN <<Item("close", old[j], 0)>> ELSE <<>>

RECURSIVE CloseLoop(_, _, _)
\* for (j = old_size; j > common_prefix_size; --j) code_ += "}  // pub mod " + ...
CloseLoop(old, j, cps) ==
    IF j > cps THEN <<Item("close", old[j], 0)>> \o CloseLoop(old, j - 1, cps)
    ELSE <<>>

RECURSIVE OpenLoop(_, _)
\* for (j = common_prefix_size; j != new_size; ++j) { "pub mod ... {"; imports }
OpenLoop(new, j) ==
    IF j # Len(new)
    THEN <<Item("open", MakeSnakeCase(new[j + 1]), 0), Item("imports", <<>>, 0)>>
             \o OpenLoop(new, j + 1)
    ELSE <<>>

SetNameSpace_NoPrefix(namespaces, cur, ns) ==
    IF cur = ns THEN <<>>
    ELSE LET old == ComponentsOf(namespaces, cur)
             new == ComponentsOf(namespaces, ns)
         IN  CloseLoop(old, Len(old), 0) \o OpenLoop(new, 0)

\* The lines SetNameSpace(ns) appends to code_ when the current namespace is cur.
SetNameSpace(namespaces, cur, ns) ==
    IF cur = ns THEN <<>>
    ELSE LET old == ComponentsOf(namespaces, cur)
             new == ComponentsOf(namespaces, ns)
             cps == CommonPrefixSize(old, new, 0)
         IN  CloseLoop(old, Len(old), cps) \o OpenLoop(new, cps)

MaxEnums == 1

MaxStructs == 2

MaxGenerated == 1

\* The sets of namespaces a schema declares.
NsPathSets == {{<<>>, <<A, B>>, <<A, D>>}, {<<A, B>>, <<C>>, <<A, D>>}}

OrderingsOf(S) ==
    {l \in [1..Cardinality(S) -> S] : \A i, j \in DOMAIN l : l[i] = l[j] => i = j}

\* parser_.namespaces_: the declared namespaces, each once, in any order.
NamespaceLists == UNION {OrderingsOf(S) : S \in NsPathSets}

\* Every set of NsPathSets declares the same number of namespaces.
NumNamespaces == Cardinality(CHOOSE S \in NsPathSets : TRUE)

SeqsUpTo(S, n) == UNION {[1..k -> S] : k \in 0..n}

Bit(b) == IF b THEN 1 ELSE 0

EnumKey(e) == 2 * e.defined_namespace + Bit(e.generated)

StructKey(d) == 4 * d.defined_namespace + 2 * Bit(d.fixed) + Bit(d.generated)

\* The schemas generate() is run on.  The definitions carry no name, and
\* generate() looks at a definition only inside the iteration of its own
\* namespace and the loop of its own kind, so a vector stands for all its
\* reorderings across namespaces and kinds: only vectors listed by namespace,
\* then kind, are enumerated.  Definitions marked `generated` (at most
\* MaxGenerated of them) come from files generated before.  The root type is
\* a table.
Schemas ==
    {p \in [namespaces_ : NamespaceLists,
            enums_ : SeqsUpTo([defined_namespace : 1..NumNamespaces,
                               generated : BOOLEAN], MaxEnums),
            structs_ : SeqsUpTo([defined_namespace : 1..NumNamespaces,
                                 fixed : BOOLEAN, generated : BOOLEAN], MaxStructs),
            root_struct_def_ : 0..MaxStructs] :
        /\ \A i, j \in 1..Len(p.enums_) :
               i < j => EnumKey(p.enums_[i]) <= EnumKey(p.enums_[j])
        /\ \A i, j \in 1..Len(p.structs_) :
               i < j => StructKey(p.structs_[i]) <= StructKey(p.structs_[j])
        /\ Cardinality({i \in 1..Len(p.enums_) : p.enums_[i].generated})
               + Cardinality({i \in 1..Len(p.structs_) : p.structs_[i].generated})
               <= MaxGenerated
        /\ p.root_struct_def_ <= Len(p.structs_)
        /\ p.root_struct_def_ # 0 => ~p.structs_[p.root_struct_def_].fixed}

DriverInit ==
    /\ ndebug = FALSE
    /\ parser_ \in Schemas
    /\ cur_name_space_ = 0
    /\ code_ = <<>>
    /\ pc = "start"
    /\ ns_it = 0
    /\ saved = FALSE
    /\ ClassifierIdle /\ ResolverIdle /\ TableIdle

driverFrame == <<ndebug, parser_, classifierVars, resolverVars, tableVars>>

\* generate(), up to the head of the namespace loop.
GenerateBegin ==
    /\ pc = "start"
    /\ cur_name_space_ = 0
    /\ code_' = <<Item("header", <<>>, 0)>>
    /\ ns_it' = 1
    /\ pc' = IF Len(parser_.namespaces_) >= 1 THEN "loop" ELSE "close"
    /\ UNCHANGED <<cur_name_space_, saved, driverFrame>>

EmitIn_CurrentModule(st, ns, item) ==
    [code |-> st.code \o <<item>>, cur |-> st.cur]

\* SetNameSpace(ns) followed by the emission of one definition, applied to
\* st = [code, cur], the output and the current namespace.
EmitIn(st, ns, item) ==
    [code |-> st.code \o SetNameSpace(parser_.namespaces_, st.cur, ns) \o <<item>>,
     cur |-> ns]

RECURSIVE EnumLoop(_, _, _)
\* The loop over parser_.enums_.vec inside namespace iteration ns, from
\* element k on.
EnumLoop(ns, k, st) ==
    IF k > Len(parser_.enums_) THEN st
    ELSE LET enum_def == parser_.enums_[k]
         IN  IF enum_def.defined_namespace # ns THEN EnumLoop(ns, k + 1, st)
             ELSE IF ~enum_def.generated
                  THEN EnumLoop(ns, k + 1,
                                EmitIn(st, enum_def.defined_namespace,
                                       Item("enum", <<>>, k)))
             ELSE EnumLoop(ns, k + 1, st)

RECURSIVE StructLoop(_, _, _)
\* The first loop over parser_.structs_.vec: the fixed structs.
StructLoop(ns, k, st) ==
    IF k > Len(parser_.structs_) THEN st
    ELSE LET struct_def == parser_.structs_[k]
         IN  IF struct_def.defined_namespace # ns THEN StructLoop(ns, k + 1, st)
             ELSE IF struct_def.fixed /\ ~struct_def.generated
                  THEN StructLoop(ns, k + 1,
                                  EmitIn(st, struct_def.defined_namespace,
                                         Item("struct", <<>>, k)))
             ELSE StructLoop(ns, k + 1, st)

RECURSIVE TableLoop(_, _, _)
\* The second loop over parser_.structs_.vec: the tables.
TableLoop(ns, k, st) ==
    IF k > Len(parser_.structs_) THEN st
    ELSE LET struct_def == parser_.structs_[k]
         IN  IF struct_def.defined_namespace # ns THEN TableLoop(ns, k + 1, st)
             ELSE IF ~struct_def.fixed /\ ~struct_def.generated
                  THEN TableLoop(ns, k + 1,
                                 EmitIn(st, struct_def.defined_namespace,
                                        Item("table", <<>>, k)))
             ELSE TableLoop(ns, k + 1, st)

Here == [code |-> code_, cur |-> cur_name_space_]

RootHelpers_EveryNamespace(ns, st) ==
    LET root == parser_.root_struct_def_
    IN  IF root # 0
        THEN EmitIn(st, parser_.structs_[root].defined_namespace,
                    Item("root", <<>>, root))
        ELSE st

\* The root-helper block that ends one iteration of the namespace loop: the
\* iteration goes on to the next namespace unless the root type is declared
\* in ns.
RootHelpers(ns, st) ==
    LET root == parser_.root_struct_def_
    IN  IF root # 0 /\ parser_.structs_[root].defined_namespace = ns
        THEN EmitIn(st, parser_.structs_[root].defined_namespace,
                    Item("root", <<>>, root))
        ELSE st

\* One iteration of the namespace loop, for namespace ns_it: the enum loop, the
\* fixed-struct loop, the table loop and the root-helper block, then ++ns_it.
GenNamespace ==
    /\ pc = "loop"
    /\ LET st == RootHelpers(ns_it,
                     TableLoop(ns_it, 1,
                         StructLoop(ns_it, 1,
                             EnumLoop(ns_it, 1, Here))))
       IN  code_' = st.code /\ cur_name_space_' = st.cur
    /\ ns_it' = ns_it + 1
    /\ pc' = IF ns_it + 1 <= Len(parser_.namespaces_) THEN "loop" ELSE "close"
    /\ UNCHANGED <<saved, driverFrame>>

\* After the namespace loop: close what is open and save the file.
GenerateEnd ==
    /\ pc = "close"
    /\ IF cur_name_space_ # 0
       THEN /\ code_' = code_ \o SetNameSpace(parser_.namespaces_, cur_name_space_, 0)
            /\ cur_name_space_' = 0
       ELSE UNCHANGED <<code_, cur_name_space_>>
    /\ saved' = TRUE
    /\ pc' = "done"
    /\ UNCHANGED <<ns_it, driverFrame>>

Next ==
    \/ GenerateBegin
    \/ GenNamespace
    \/ GenerateEnd

Init == DriverInit

Spec == Init /\ [][Next]_vars

(***************************************************************************)
(* Properties of the driver                                                *)
(***************************************************************************)

IsScopeItem(x) == x.kind \in {"close", "open", "imports"}

IsDefItem(x) == x.kind \in {"enum", "struct", "table", "root"}

IsOpenItem(x) == x.kind = "open"

IsCloseItem(x) == x.kind = "close"

\* The namespace (index) in which a definition item's definition is declared.
NsOfItem(x) ==
    IF x.kind = "enum" THEN parser_.enums_[x.def].defined_namespace
    ELSE parser_.structs_[x.def].defined_namespace

KindRank(x) ==
    CASE x.kind = "enum" -> 1
      [] x.kind = "struct" -> 2
      [] x.kind = "table" -> 3
      [] x.kind = "root" -> 4

Mismatch == <<<<"!">>>>

RECURSIVE StackFrom(_, _, _)
\* The modules open after the items code[k..], starting from `stack`: a
\* `pub mod x {` line opens x inside the innermost open module, a `}` line
\* closes the innermost open module, which must be the one its comment names.
StackFrom(code, k, stack) ==
    IF k > Len(code) THEN stack
    ELSE IF code[k].kind = "open"
         THEN StackFrom(code, k + 1, Append(stack, code[k].name))
    ELSE IF code[k].kind = "close"
         THEN (IF stack = <<>> \/ stack[Len(stack)] # MakeSnakeCase(code[k].name)
               THEN Mismatch
               ELSE StackFrom(code, k + 1, SubSeq(stack, 1, Len(stack) - 1)))
    ELSE StackFrom(code, k + 1, stack)

OpenModules(code) == StackFrom(code, 1, <<>>)

\* C5: one step of generate() (the iteration of one namespace, or the closing
\* call) that moves the current namespace from cur to
\* target emits len(cur) - L close lines, innermost component first, then
\* len(target) - L open lines, outermost first, each followed by the import
\* prologue, before the definition's own text, and makes target the current
\* namespace; a step that leaves the current namespace where it is emits no
\* scope line.
C5_Step ==
    LET new == SubSeq(code_', Len(code_) + 1, Len(code_'))
        scope == SelectSeq(new, IsScopeItem)
        defs == SelectSeq(new, IsDefItem)
        cur == ComponentsOf(parser_.namespaces_, cur_name_space_)
        tgt == ComponentsOf(parser_.namespaces_, cur_name_space_')
        L == LongestCommonPrefix(cur, tgt)
        nc == Len(cur) - L
        no == Len(tgt) - L
    IN  /\ SubSeq(code_', 1, Len(code_)) = code_
        /\ Len(scope) = nc + 2 * no
        /\ \A j \in 1..nc : scope[j] = Item("close", cur[Len(cur) - j + 1], 0)
        /\ \A j \in 1..no :
               /\ scope[nc + 2 * j - 1] = Item("open", MakeSnakeCase(tgt[L + j]), 0)
               /\ scope[nc + 2 * j] = Item("imports", <<>>, 0)
        /\ SubSeq(new, 1, Len(scope)) = scope
        /\ \A j \in 1..Len(defs) : cur_name_space_' = NsOfItem(defs[j])
        /\ (cur_name_space_' = cur_name_space_) => scope = <<>>

C5_SetNameSpace == [][C5_Step]_vars

C5_Witness ==
    \E k \in 1..(Len(code_) - 3) :
        /\ code_[k] = Item("close", B, 0)
        /\ code_[k + 1] = Item("open", <<"d">>, 0)
        /\ code_[k + 2] = Item("imports", <<>>, 0)
        /\ IsDefItem(code_[k + 3])
        /\ ComponentsOf(parser_.namespaces_, cur_name_space_) = <<A, D>>

\* C6: at every point of generate() the modules opened and not yet closed are
\* the modules of the current namespace's components, opens and closes nest
\* like a stack, and when generate() is finished every module is closed: as
\* many open lines as close lines, and the current namespace is null.
C6_ScopesNest ==
    /\ OpenModules(code_)
           = ModulePath(ComponentsOf(parser_.namespaces_, cur_name_space_))
    /\ pc = "done" =>
           /\ cur_name_space_ = 0
           /\ Len(SelectSeq(code_, IsOpenItem)) = Len(SelectSeq(code_, IsCloseItem))
           /\ saved

C6_Witness ==
    /\ pc = "done"
    /\ Len(SelectSeq(code_, IsOpenItem)) >= 4
    /\ Len(SelectSeq(code_, IsDefItem)) >= 3

RECURSIVE OpenedFrom(_, _, _)
\* The full module path of every `pub mod` line of code[k..], in order.
OpenedFrom(code, k, stack) ==
    IF k > Len(code) THEN <<>>
    ELSE IF code[k].kind = "open"
         THEN <<Append(stack, code[k].name)>>
                  \o OpenedFrom(code, k + 1, Append(stack, code[k].name))
    ELSE IF code[k].kind = "close"
         THEN OpenedFrom(code, k + 1, SubSeq(stack, 1, Len(stack) - 1))
    ELSE OpenedFrom(code, k + 1, stack)

OpenedModules(code) == OpenedFrom(code, 1, <<>>)

\* C7: no module path is opened in the output a second time.
C7_NoModuleReopened ==
    LET opened == OpenedModules(code_)
    IN  \A i, j \in 1..Len(opened) : opened[i] = opened[j] => i = j

\* C8: the definitions appear in the output namespace by namespace in list
\* order and, inside a namespace, enums before fixed structs before tables
\* before the root helpers; the root helpers appear once at most, for the root
\* type, inside the module of the root type's namespace.
C8_EmissionOrder ==
    LET defs == SelectSeq(code_, IsDefItem)
    IN  /\ \A i, j \in 1..Len(defs) :
               i < j =>
                   /\ NsOfItem(defs[i]) <= NsOfItem(defs[j])
                   /\ NsOfItem(defs[i]) = NsOfItem(defs[j])
                          => KindRank(defs[i]) <= KindRank(defs[j])
        /\ \A i \in 1..Len(defs) :
               /\ defs[i].kind = "struct" => parser_.structs_[defs[i].def].fixed
               /\ defs[i].kind = "table" => ~parser_.structs_[defs[i].def].fixed
               /\ defs[i].kind = "root" => defs[i].def = parser_.root_struct_def_
        /\ \A k, m \in 1..Len(code_) :
               (code_[k].kind = "root" /\ code_[m].kind = "root") => k = m
        /\ \A k \in 1..Len(code_) :
               code_[k].kind = "root" =>
                   StackFrom(SubSeq(code_, 1, k), 1, <<>>)
                       = ModulePath(ComponentsOf(parser_.namespaces_,
                                                 NsOfItem(code_[k])))

C8_Witness ==
    /\ pc = "done"
    /\ \E n \in 1..Len(parser_.namespaces_) :
           LET here == SelectSeq(SelectSeq(code_, IsDefItem),
                                 LAMBDA x : NsOfItem(x) = n)
           IN  /\ Len(here) = 4
               /\ here[1].kind = "enum" /\ here[2].kind = "struct"
               /\ here[3].kind = "table" /\ here[4].kind = "root"
               /\ here[4].def = here[3].def

(***************************************************************************)
(* The table emitter's per-field decisions (GenTable)                      *)
(*                                                                         *)
(* Emitted text is a sequence of tokens.  A type is <<t>> or               *)
(* <<"Option<", t, ">">>; a FUNC_BODY is <<"self.fbb_.push_slot::<", t,    *)
(* ">">> or the same with push_slot_always.  field.value.constant is a     *)
(* sequence of characters; field.enum_vals are the values the enum of the  *)
(* field's type declares.                                                  *)
(***************************************************************************)

Abort == <<"abort">>

None == <<"None">>

InvalidCodeGeneration == <<"INVALID_CODE_GENERATION">>

Digits == <<"0", "1", "2", "3", "4", "5", "6", "7", "8", "9">>

\* StringToInt of a one-digit constant.
StringToInt(str) == (CHOOSE i \in 1..Len(Digits) : Digits[i] = str[1]) - 1

\* The outcomes of dereferencing the null EnumVal in a build without
\* assertions: the process crashes, or some name is read.
UBOutcomes == {"crash", "garbage"}

\* GetDefaultScalarValue(field): the text of the field's default, or Abort.
GetDefaultScalarValue(f, nd, ub) ==
    LET ft == GetFullType(f.type, nd)
    IN  CASE ft = "abort" -> Abort
          [] ft \in {"ftInteger", "ftFloat"} ->
                 IF f.optional THEN None ELSE f.constant
          [] ft = "ftBool" ->
                 IF f.optional THEN None
                 ELSE IF f.constant = <<"0">> THEN <<"false">> ELSE <<"true">>
          [] ft \in {"ftUnionKey", "ftEnumKey"} ->
                 IF f.optional THEN None
                 ELSE IF StringToInt(f.constant) \in f.enum_vals
                      THEN <<"E::V", f.constant[1]>>
                 ELSE IF ~nd THEN Abort
                 ELSE IF ub = "crash" THEN Abort ELSE <<"E::V", "?">>
          [] OTHER -> None

WrapInOptionIfNotRequired_Always(t, required) == <<"Option<", t, ">">>

WrapInOptionIfNotRequired(t, required) ==
    IF required THEN <<t>> ELSE <<"Option<", t, ">">>

\* GetTypeBasic(type): the Rust name of the base type.
GetTypeBasic(ty) == ty.base_type

\* SizeOf(base_type) == 1
IsOneByte(t) == t \in {"NONE", "UTYPE", "BOOL", "CHAR", "UCHAR"}

\* GenTableAccessorFuncReturnType(field, "'a").
GenTableAccessorFuncReturnType(f, nd) ==
    LET ty == f.type
        ft == GetFullType(ty, nd)
    IN  CASE ft \in {"ftInteger", "ftFloat", "ftBool"} ->
                 IF f.optional THEN <<"Option<", GetTypeBasic(ty), ">">>
                 ELSE <<GetTypeBasic(ty)>>
          [] ft = "ftStruct" -> WrapInOptionIfNotRequired("&'a S", f.required)
          [] ft = "ftTable" -> WrapInOptionIfNotRequired("S<'a>", f.required)
          [] ft \in {"ftEnumKey", "ftUnionKey"} ->
                 IF f.optional THEN <<"Option<", "E", ">">> ELSE <<"E">>
          [] ft = "ftUnionValue" ->
                 WrapInOptionIfNotRequired("flatbuffers::Table<'a>", f.required)
          [] ft = "ftString" -> WrapInOptionIfNotRequired("&'a str", f.required)
          [] ft \in {"ftVectorOfInteger", "ftVectorOfBool", "ftVectorOfFloat"} ->
                 IF IsOneByte(VectorType(ty).base_type)
                 THEN WrapInOptionIfNotRequired("&'a [T]", f.required)
                 ELSE WrapInOptionIfNotRequired("flatbuffers::Vector<'a, T>",
                                                f.required)
          [] ft = "ftVectorOfEnumKey" ->
                 WrapInOptionIfNotRequired("flatbuffers::Vector<'a, E>", f.required)
          [] ft = "ftVectorOfStruct" ->
                 WrapInOptionIfNotRequired("&'a [S]", f.required)
          [] ft = "ftVectorOfTable" ->
                 WrapInOptionIfNotRequired(
                     "flatbuffers::Vector<'a, flatbuffers::ForwardsUOffset<S<'a>>>",
                     f.required)
          [] ft = "ftVectorOfString" ->
                 WrapInOptionIfNotRequired(
                     "flatbuffers::Vector<'a, flatbuffers::ForwardsUOffset<&'a str>>",
                     f.required)
          [] ft = "ftVectorOfUnionValue" ->
                 IF nd THEN InvalidCodeGeneration ELSE Abort
          [] ft = "abort" -> Abort
          [] OTHER -> InvalidCodeGeneration

\* GenTableAccessorFuncBody(field, "'a"): the parts of the body after the
\* followed type.
GenTableAccessorFuncBody(f, nd, ub) ==
    LET default_value ==
            IF ~(f.optional \/ f.required)
            THEN <<"Some(">> \o GetDefaultScalarValue(f, nd, ub) \o <<")">>
            ELSE None
        unwrap == ~f.optional
        t == GetFullType(f.type, nd)
        safe_slice ==
            \/ t = "ftVectorOfStruct"
            \/ /\ t \in {"ftVectorOfBool", "ftVectorOfFloat", "ftVectorOfInteger"}
               /\ IsOneByte(VectorType(f.type).base_type)
    IN  [default_value |-> default_value, safe_slice |-> safe_slice,
         unwrap |-> unwrap]

PushSlot(typname) == <<"self.fbb_.push_slot::<", typname, ">">>

PushSlotAlways(typname) == <<"self.fbb_.push_slot_always::<", typname, ">">>

TableBuilderArgsAddFuncBody_IgnoreOptional(f, nd) ==
    LET ty == f.type
        ft == GetFullType(ty, nd)
    IN  CASE ft \in {"ftInteger", "ftBool", "ftFloat"} ->
                 IF f.optional THEN PushSlotAlways(GetTypeBasic(ty))
                 ELSE PushSlot(GetTypeBasic(ty))
          [] ft \in {"ftEnumKey", "ftUnionKey"} -> PushSlot(GetTypeBasic(ty))
          [] ft = "ftStruct" -> PushSlotAlways("&S")
          [] ft = "ftTable" -> PushSlotAlways("flatbuffers::WIPOffset<S>")
          [] ft \in {"ftUnionValue", "ftString", "ftVectorOfInteger",
                     "ftVectorOfFloat", "ftVectorOfBool", "ftVectorOfEnumKey",
                     "ftVectorOfStruct", "ftVectorOfTable", "ftVectorOfString",
                     "ftVectorOfUnionValue"} ->
                 PushSlotAlways("flatbuffers::WIPOffset<_>")
          [] ft = "abort" -> Abort
          [] OTHER -> InvalidCodeGeneration

\* TableBuilderArgsAddFuncBody(field).
TableBuilderArgsAddFuncBody(f, nd) ==
    LET ty == f.type
        ft == GetFullType(ty, nd)
    IN  CASE ft \in {"ftInteger", "ftBool", "ftFloat"} ->
                 IF f.optional THEN PushSlotAlways(GetTypeBasic(ty))
                 ELSE PushSlot(GetTypeBasic(ty))
          [] ft \in {"ftEnumKey", "ftUnionKey"} ->
                 IF f.optional THEN PushSlotAlways(GetTypeBasic(ty))
                 ELSE PushSlot(GetTypeBasic(ty))
          [] ft = "ftStruct" -> PushSlotAlways("&S")
          [] ft = "ftTable" -> PushSlotAlways("flatbuffers::WIPOffset<S>")
          [] ft \in {"ftUnionValue", "ftString", "ftVectorOfInteger",
                     "ftVectorOfFloat", "ftVectorOfBool", "ftVectorOfEnumKey",
                     "ftVectorOfStruct", "ftVectorOfTable", "ftVectorOfString",
                     "ftVectorOfUnionValue"} ->
                 PushSlotAlways("flatbuffers::WIPOffset<_>")
          [] ft = "abort" -> Abort
          [] OTHER -> InvalidCodeGeneration

\* The accessor GenTable emits for one field, inside ForAllTableFields:
\* deprecated fields are passed over, DEFAULT_VALUE is computed before the
\* callback runs.
EmitAccessor(f, nd, ub) ==
    IF f.deprecated THEN Accessor("skipped", <<>>, NoBody)
    ELSE IF GetDefaultScalarValue(f, nd, ub) = Abort
         THEN Accessor("abort", <<>>, NoBody)
    ELSE IF GenTableAccessorFuncReturnType(f, nd) = Abort
         THEN Accessor("abort", <<>>, NoBody)
    ELSE Accessor("emitted", GenTableAccessorFuncReturnType(f, nd),
                  GenTableAccessorFuncBody(f, nd, ub))

EmitAddFunc_RawConstant(f, nd, ub) ==
    IF f.deprecated THEN AddFunc("skipped", <<>>, <<>>)
    ELSE IF GetDefaultScalarValue(f, nd, ub) = Abort
         THEN AddFunc("abort", <<>>, <<>>)
    ELSE LET is_scalar == IsScalar(f.type.base_type)
         IN  IF is_scalar /\ ~f.optional
             THEN AddFunc("emitted", TableBuilderArgsAddFuncBody(f, nd),
                          <<<<"FIELD_OFFSET">>, <<"FIELD_NAME">>, f.constant>>)
             ELSE AddFunc("emitted", TableBuilderArgsAddFuncBody(f, nd),
                          <<<<"FIELD_OFFSET">>, <<"FIELD_NAME">>>>)

\* The builder's add_<field> function GenTable emits for one field, inside
\* ForAllTableFields: the call of FUNC_BODY takes the offset and the value,
\* and DEFAULT_VALUE when the base type is scalar and the field not optional.
EmitAddFunc(f, nd, ub) ==
    IF f.deprecated THEN AddFunc("skipped", <<>>, <<>>)
    ELSE IF GetDefaultScalarValue(f, nd, ub) = Abort
         THEN AddFunc("abort", <<>>, <<>>)
    ELSE LET is_scalar == IsScalar(f.type.base_type)
         IN  IF is_scalar /\ ~f.optional
             THEN AddFunc("emitted", TableBuilderArgsAddFuncBody(f, nd),
                          <<<<"FIELD_OFFSET">>, <<"FIELD_NAME">>,
                            GetDefaultScalarValue(f, nd, ub)>>)
             ELSE AddFunc("emitted", TableBuilderArgsAddFuncBody(f, nd),
                          <<<<"FIELD_OFFSET">>, <<"FIELD_NAME">>>>)

MaxEnumValue == 1

\* The types of table fields: the types the generator supports and the vectors
\* it does not.
FieldTypes == {ty \in SchemaTypes : Representable(ty) \/ IsUnsupportedVector(ty)}

\* The fields of a table.  Only a field of scalar base type declares a default
\* constant and none of them is required ("Default-y fields (scalars so far)
\* are neither optional nor required"); a type with an enum reference comes
\* with the enum's declared values, and a union declares NONE = 0, the default
\* of its discriminant.
FieldDefs ==
    {f \in [type : FieldTypes, optional : BOOLEAN, required : BOOLEAN,
            deprecated : BOOLEAN,
            constant : {<<Digits[v + 1]>> : v \in 0..MaxEnumValue},
            enum_vals : SUBSET (0..MaxEnumValue)] :
        /\ IsScalar(f.type.base_type) => ~f.required
        /\ ~IsScalar(f.type.base_type) => f.constant = <<"0">>
        /\ (f.type.enum_def = "null") <=> (f.enum_vals = {})
        /\ f.type.enum_def = "union" => (0 \in f.enum_vals /\ f.constant = <<"0">>)}

TableInit ==
    /\ ndebug \in BOOLEAN
    /\ field \in FieldDefs
    /\ accessor = Accessor("unset", <<>>, NoBody)
    /\ add_func = AddFunc("unset", <<>>, <<>>)
    /\ ClassifierIdle /\ ResolverIdle /\ DriverIdle /\ GenIdle

tableFrame == <<ndebug, field, classifierVars, resolverVars, driverVars, genVars>>

\* GenTable's pass over the fields that emits the accessors, for `field`.
GenAccessor ==
    /\ accessor.status = "unset"
    /\ \E ub \in UBOutcomes : accessor' = EmitAccessor(field, ndebug, ub)
    /\ UNCHANGED <<add_func, tableFrame>>

\* GenTable's later pass over the fields that emits the builder's add
\* functions, for `field`.
GenBuilderAdd ==
    /\ accessor.status \in {"emitted", "skipped"}
    /\ add_func.status = "unset"
    /\ \E ub \in UBOutcomes : add_func' = EmitAddFunc(field, ndebug, ub)
    /\ UNCHANGED <<accessor, tableFrame>>

TableNext == GenAccessor \/ GenBuilderAdd

SpecTable == TableInit /\ [][TableNext]_vars

\* The kinds of field C9 and C10 name, read off the declared type.
IsScalarKind(ty) ==
    IsPlainScalarType(ty) \/ IsPlainEnumType(ty) \/ IsUnionKeyType(ty)

IsReferenceTyped(ty) ==
    \/ IsStructOrTableType(ty) \/ IsStringType(ty)
    \/ IsVectorOfSupported(ty) \/ IsUnionValueType(ty)

IsOptionType(rt) == Len(rt) = 3 /\ rt[1] = "Option<" /\ rt[3] = ">"

\* The field's default constant is the value of a declared enum value, or the
\* field's type references no enum.
DefaultIsDeclaredValue(f) ==
    f.type.enum_def # "null" => StringToInt(f.constant) \in f.enum_vals

\* The default a field declares, as Rust text.
DeclaredDefault(f) ==
    IF f.type.enum_def # "null" THEN <<"E::V", f.constant[1]>>
    ELSE IF f.type.base_type = "BOOL"
         THEN (IF f.constant = <<"0">> THEN <<"false">> ELSE <<"true">>)
    ELSE f.constant

\* C9: for every emitted accessor of a field of a supported type, the return
\* type is Option<..> exactly when the field is scalar-kind and optional, or
\* reference-typed and not required (whether or not it is optional); a
\* required reference-typed field returns the bare type; a non-optional
\* scalar-kind field returns the bare type and, its default being an integer,
\* a float, a bool or the value of a declared enum value, reads with
\* Some(declared default) and unwraps.
C9_AccessorReturnType ==
    (accessor.status = "emitted" /\ Representable(field.type)) =>
        LET sk == IsScalarKind(field.type)
            ref == IsReferenceTyped(field.type)
            rt == accessor.return_type
        IN  /\ sk # ref
            /\ IsOptionType(rt)
                   <=> ((sk /\ field.optional) \/ (ref /\ ~field.required))
            /\ ~IsOptionType(rt) => (Len(rt) = 1 /\ rt # InvalidCodeGeneration)
            /\ (ref /\ field.required /\ ~field.optional) =>
                   (accessor.body.unwrap /\ accessor.body.default_value = None)
            /\ (sk /\ ~field.optional) => accessor.body.unwrap
            /\ (sk /\ ~field.optional /\ DefaultIsDeclaredValue(field)) =>
                   accessor.body.default_value
                       = <<"Some(">> \o DeclaredDefault(field) \o <<")">>

C9_Witness ==
    /\ accessor.status = "emitted"
    /\ IsStringType(field.type)
    /\ ~field.optional /\ ~field.required
    /\ accessor.return_type = <<"Option<", "&'a str", ">">>

\* C10: for every emitted add function of a field of a supported type, the
\* write is push_slot exactly when the field is scalar-kind and not optional,
\* and then the call passes the declared default (an integer, a float, a bool
\* or the value of a declared enum value); otherwise (the field is
\* optional, or a struct, table, string, vector or union value) the write is
\* push_slot_always and the call passes no default.  The call passes a default
\* exactly when the write is push_slot.
C10_BuilderWrite ==
    (add_func.status = "emitted" /\ Representable(field.type)) =>
        LET sk == IsScalarKind(field.type)
            fn == add_func.func_body
            slot == Len(fn) = 3 /\ fn[1] = "self.fbb_.push_slot::<"
            always == Len(fn) = 3 /\ fn[1] = "self.fbb_.push_slot_always::<"
        IN  /\ slot <=> (sk /\ ~field.optional)
            /\ ~slot <=> always
            /\ slot <=> (Len(add_func.args) = 3)
            /\ always <=> (Len(add_func.args) = 2)
            /\ (slot /\ DefaultIsDeclaredValue(field)) =>
                   add_func.args[3] = DeclaredDefault(field)

C10_Witness ==
    /\ add_func.status = "emitted"
    /\ IsPlainEnumType(field.type)
    /\ ~field.optional
    /\ add_func.func_body = PushSlot(field.type.base_type)
    /\ add_func.args[3] = <<"E::V", "1">>

(***************************************************************************)
(* GenTable: create(), finish() and the verifier of one table, and the     *)
(* emitted builder and union check at run time                             *)
(*                                                                         *)
(* gen_table.fields are FieldDefs with a name.  A union field comes as the *)
(* pair the schema parser makes of it: the discriminant field <name>_type  *)
(* of base type UTYPE directly before the value field of base type UNION.  *)
(* Emitted text refers to a field by its index in gen_table.fields.        *)
(***************************************************************************)

\* SizeOf(base_type), in bytes.
SizeOf(t) ==
    CASE t \in {"NONE", "UTYPE", "BOOL", "CHAR", "UCHAR"} -> 1
      [] t \in {"SHORT", "USHORT"} -> 2
      [] t \in {"INT", "UINT", "FLOAT"} -> 4
      [] t \in {"LONG", "ULONG", "DOUBLE"} -> 8
      [] OTHER -> 4

\* sizeof(largest_scalar_t)
LargestScalarSize == 8

TableFieldReturnsOption(f, nd) ==
    IF f.optional THEN TRUE
    ELSE GetFullType(f.type, nd)
             \notin {"ftInteger", "ftFloat", "ftBool", "ftEnumKey", "ftUnionKey"}

RECURSIVE FieldsFrom(_, _)
\* The indexes i >= k of the fields ForAllTableFields hands to its callback:
\* the fields that are not deprecated, in declaration order.
FieldsFrom(sd, k) ==
    IF k > Len(sd.fields) THEN <<>>
    ELSE IF sd.fields[k].deprecated THEN FieldsFrom(sd, k + 1)
    ELSE <<k>> \o FieldsFrom(sd, k + 1)

Reverse(q) == [k \in 1..Len(q) |-> q[Len(q) + 1 - k]]

ForAllTableFields(sd, reversed) ==
    IF reversed THEN Reverse(FieldsFrom(sd, 1)) ELSE FieldsFrom(sd, 1)

\* ForAllTableFields computes DEFAULT_VALUE for every field it visits.
DefaultValueAborts(sd, nd, ub) ==
    \E i \in 1..Len(sd.fields) :
        /\ ~sd.fields[i].deprecated
        /\ GetDefaultScalarValue(sd.fields[i], nd, ub) = Abort

CreatePass_DeclarationOrder(sd, nd, size) ==
    LET taken == SelectSeq(ForAllTableFields(sd, FALSE),
                     LAMBDA i : ~(sd.sortbysize
                                  /\ size # SizeOf(sd.fields[i].type.base_type)))
    IN  [k \in 1..Len(taken) |->
            [field |-> taken[k],
             if_some |-> TableFieldReturnsOption(sd.fields[taken[k]], nd)]]

\* One pass of create() over the fields, for one value of `size`.
CreatePass(sd, nd, size) ==
    LET taken == SelectSeq(ForAllTableFields(sd, TRUE),
                     LAMBDA i : ~(sd.sortbysize
                                  /\ size # SizeOf(sd.fields[i].type.base_type)))
    IN  [k \in 1..Len(taken) |->
            [field |-> taken[k],
             if_some |-> TableFieldReturnsOption(sd.fields[taken[k]], nd)]]

RECURSIVE CreateLoop(_, _, _)
\* for (size = ...; size; size /= 2): the builder.add_ calls of create().
CreateLoop(sd, nd, size) ==
    IF size = 0 THEN <<>>
    ELSE CreatePass(sd, nd, size) \o CreateLoop(sd, nd, size \div 2)

GenCreate_FromFourBytes(sd, nd) ==
    CreateLoop(sd, nd, IF sd.sortbysize THEN 4 ELSE 1)

GenCreate(sd, nd) ==
    CreateLoop(sd, nd, IF sd.sortbysize THEN LargestScalarSize ELSE 1)

Stmt(op, i) == [op |-> op, field |-> i]

\* The statements of the emitted create(): the builder is made, the add calls
\* follow, builder.finish() is the last line.
CreateFn(sd, nd) ==
    LET adds == GenCreate(sd, nd)
    IN  <<Stmt("new", 0)>>
            \o [k \in 1..Len(adds) |-> Stmt("add", adds[k].field)]
            \o <<Stmt("finish", 0)>>

FinishChecks_EveryField(sd) == ForAllTableFields(sd, FALSE)

\* The self.fbb_.required(...) lines of finish(), after end_table.
FinishChecks(sd) ==
    SelectSeq(ForAllTableFields(sd, FALSE), LAMBDA i : sd.fields[i].required)

RECURSIVE SortedSeq(_)
\* EnumDef::Vals(): the declared values, ascending.
SortedSeq(S) ==
    IF S = {} THEN <<>>
    ELSE LET lo == CHOOSE x \in S : \A y \in S : x <= y
         IN  <<lo>> \o SortedSeq(S \ {lo})

\* The EnumVals of a union: value 0 is NONE, value v > 0 is the member whose
\* type is table v.
Vals(f) ==
    LET q == SortedSeq(f.enum_vals)
    IN  [k \in 1..Len(q) |->
            [value |-> q[k],
             union_type |-> IF q[k] = 0 THEN "NONE" ELSE "STRUCT",
             struct_def |-> q[k]]]

ForAllUnionVariantsBesidesNone_All(f) ==
    LET arm(ev) == [key |-> ev.value, table |-> ev.struct_def]
        evs == Vals(f)
    IN  [k \in 1..Len(evs) |-> arm(evs[k])]

\* The variants ForAllUnionVariantsBesidesNone hands to its callback, as the
\* pair (U_ELEMENT_ENUM_TYPE, U_ELEMENT_TABLE_TYPE).
ForAllUnionVariantsBesidesNone(f) ==
    LET arm(ev) == [key |-> ev.value, table |-> ev.struct_def]
        evs == SelectSeq(Vals(f), LAMBDA ev : ev.union_type # "NONE")
    IN  [k \in 1..Len(evs) |-> arm(evs[k])]

TypeSuffix == <<"_", "t", "y", "p", "e">>

\* The step the verifier gets for field i: none for a union discriminant, a
\* visit_union naming the fields <name>_type and <name> for a union value, a
\* visit_field for every other field.
VerifierStep(sd, nd, i) ==
    LET f == sd.fields[i]
        ft == GetFullType(f.type, nd)
    IN  IF ft = "ftUnionKey" THEN <<>>
        ELSE IF ft # "ftUnionValue"
        THEN <<[kind |-> "visit_field", names |-> <<f.name>>,
                is_req |-> f.required, arms |-> <<>>]>>
        ELSE <<[kind |-> "visit_union", names |-> <<f.name \o TypeSuffix, f.name>>,
                is_req |-> f.required,
                arms |-> ForAllUnionVariantsBesidesNone(f)]>>

RECURSIVE VerifierFrom(_, _, _, _)
VerifierFrom(sd, nd, visited, k) ==
    IF k > Len(visited) THEN <<>>
    ELSE VerifierStep(sd, nd, visited[k]) \o VerifierFrom(sd, nd, visited, k + 1)

\* run_verifier: visit_table, then the steps of the fields, then finish.
GenVerifier(sd, nd) ==
    <<[kind |-> "visit_table", names |-> <<>>, is_req |-> FALSE, arms |-> <<>>]>>
        \o VerifierFrom(sd, nd, ForAllTableFields(sd, FALSE), 1)

MaxTableFields == 3

\* The field of a table at position i, without its name.
Shape(ty, req, dep, vals) ==
    [type |-> ty, optional |-> FALSE, required |-> req, deprecated |-> dep,
     constant |-> <<"0">>, enum_vals |-> vals]

PlainType(b) ==
    [base_type |-> b, element |-> "NONE", struct_def |-> "null", enum_def |-> "null"]

UnionType(b) ==
    [base_type |-> b, element |-> "NONE", struct_def |-> "null", enum_def |-> "union"]

UnionValSets == {0..k : k \in 0..MaxEnumValue}

\* Scalars of the four widths and a required string, deprecated or not.
PlainShapes ==
    {Shape(PlainType(b), FALSE, FALSE, {}) : b \in {"UCHAR", "SHORT", "INT", "LONG"}}
        \cup {Shape(PlainType("STRING"), TRUE, d, {}) : d \in BOOLEAN}

\* The two fields of a union: the discriminant, then the value, with every
\* setting of required and of the two deprecated flags.
UnionPairs ==
    {<<Shape(UnionType("UTYPE"), FALSE, kd, S), Shape(UnionType("UNION"), r, vd, S)>> :
        kd \in BOOLEAN, vd \in BOOLEAN, r \in BOOLEAN, S \in UnionValSets}

NeighbourShapes ==
    {Shape(PlainType("INT"), FALSE, FALSE, {}), Shape(PlainType("STRING"), TRUE, FALSE, {})}

IsKeyShape(x) == x.type.base_type = "UTYPE"

IsValueShape(x) == x.type.base_type = "UNION"

\* Field names: f1, f2, ...; the discriminant of the union value f<i> is
\* f<i>_type.
FieldName(shapes, i) ==
    IF IsKeyShape(shapes[i]) THEN <<"f", Digits[i + 2]>> \o TypeSuffix
    ELSE <<"f", Digits[i + 1]>>

Named(shapes) ==
    [i \in 1..Len(shapes) |->
        [type |-> shapes[i].type, optional |-> shapes[i].optional,
         required |-> shapes[i].required, deprecated |-> shapes[i].deprecated,
         constant |-> shapes[i].constant, enum_vals |-> shapes[i].enum_vals,
         name |-> FieldName(shapes, i)]]

\* Tables of plain fields, and tables of one union with at most one plain
\* field before or after it.
TableDefs ==
    {[fields |-> Named(q), sortbysize |-> b] :
        q \in SeqsUpTo(PlainShapes, MaxTableFields)
                 \cup UnionPairs
                 \cup {<<x>> \o u : x \in NeighbourShapes, u \in UnionPairs}
                 \cup {u \o <<x>> : x \in NeighbourShapes, u \in UnionPairs},
        b \in BOOLEAN}

GenInit ==
    /\ ndebug \in BOOLEAN
    /\ gen_table \in TableDefs
    /\ table_code = NoTableCode
    /\ builder = NoBuilder
    /\ verify = NoVerify
    /\ ClassifierIdle /\ ResolverIdle /\ DriverIdle /\ FieldIdle
    /\ FixedIdle /\ EnumIdle /\ LateIdle

genFrame == <<ndebug, gen_table, classifierVars, resolverVars, driverVars,
              field, accessor, add_func, fixedVars, enumVars, lateVars>>

\* GenTable(gen_table): the parts of its output kept in table_code.
GenTable ==
    /\ table_code.status = "unset"
    /\ \E ub \in UBOutcomes :
           table_code' =
               IF DefaultValueAborts(gen_table, ndebug, ub)
               THEN [NoTableCode EXCEPT !.status = "abort"]
               ELSE [status |-> "emitted",
                     create |-> GenCreate(gen_table, ndebug),
                     create_fn |-> CreateFn(gen_table, ndebug),
                     finish |-> FinishChecks(gen_table),
                     verifier |-> GenVerifier(gen_table, ndebug)]
    /\ UNCHANGED <<builder, verify, genFrame>>

\* Run time: one call of the emitted add_<field>(x) on an open builder.  The
\* emitted body is push_slot_always, which writes the slot, or push_slot, which
\* writes it unless x is the default.
AddField(i) ==
    /\ table_code.status = "emitted"
    /\ builder.result = "none"
    /\ verify.result = "none"
    /\ ~gen_table.fields[i].deprecated
    /\ i \notin builder.added
    /\ \E wrote \in BOOLEAN :
           /\ (TableBuilderArgsAddFuncBody(gen_table.fields[i], ndebug)[1]
                   = "self.fbb_.push_slot_always::<") => wrote
           /\ builder' = [builder EXCEPT
                  !.added = @ \cup {i},
                  !.slots = IF wrote THEN @ \cup {i} ELSE @]
    /\ UNCHANGED <<table_code, verify, genFrame>>

\* Run time: the emitted finish(): end_table, then the required(...) checks.
Finish ==
    /\ table_code.status = "emitted"
    /\ builder.result = "none"
    /\ verify.result = "none"
    /\ builder' = [builder EXCEPT !.result =
           IF \E k \in 1..Len(table_code.finish) :
                  table_code.finish[k] \notin builder.slots
           THEN "RequiredFieldMissing" ELSE "ok"]
    /\ UNCHANGED <<table_code, verify, genFrame>>

\* The closure the emitted visit_union step hands to the verifier: the match
\* on the discriminant.
MatchKey(arms, key, payload) ==
    LET hit == {k \in 1..Len(arms) : arms[k].key = key}
    IN  IF hit = {} THEN [inspected |-> FALSE, result |-> "Ok"]
        ELSE LET a == arms[CHOOSE k \in hit : \A m \in hit : k <= m]
             IN  [inspected |-> TRUE,
                  result |-> IF payload = a.table THEN "Ok"
                             ELSE "InvalidFlatbuffer"]

\* Run time: the closure of the visit_union step k is called with a stored
\* discriminant `key` and a payload that is a valid table `payload` (0: of no
\* table type).
RunUnionCheck ==
    /\ table_code.status = "emitted"
    /\ builder = NoBuilder
    /\ verify.result = "none"
    /\ \E k \in 1..Len(table_code.verifier), key \in 0..(MaxEnumValue + 1),
          payload \in 0..MaxEnumValue :
           /\ table_code.verifier[k].kind = "visit_union"
           /\ LET r == MatchKey(table_code.verifier[k].arms, key, payload)
              IN  verify' = [step |-> k, key |-> key, payload |-> payload,
                             inspected |-> r.inspected, result |-> r.result]
    /\ UNCHANGED <<table_code, builder, genFrame>>

GenNext ==
    \/ GenTable
    \/ \E i \in 1..Len(gen_table.fields) : AddField(i)
    \/ Finish
    \/ RunUnionCheck

SpecGenTable == GenInit /\ [][GenNext]_vars

\* The fields of gen_table the emitted finish() checks.
Checked == {table_code.finish[k] : k \in 1..Len(table_code.finish)}

\* C11 as stated: finish() checks exactly the fields flagged required, so it
\* fails exactly when the add-operation of some field flagged required was
\* never invoked.
C11_ChecksEveryRequiredField ==
    table_code.status = "emitted" =>
        LET req == {i \in 1..Len(gen_table.fields) : gen_table.fields[i].required}
        IN  /\ Checked = req
            /\ builder.result # "none" =>
                   (builder.result = "RequiredFieldMissing"
                        <=> \E i \in req : i \notin builder.added)

\* C11 amended: finish() checks, once each, exactly the fields that are
\* flagged required and not deprecated (the fields that have an
\* add-operation), so it fails exactly when the add-operation of one of them
\* was never invoked, and succeeds otherwise.
C11_ChecksRequiredFieldsWithAddOp ==
    table_code.status = "emitted" =>
        LET req == {i \in 1..Len(gen_table.fields) :
                       gen_table.fields[i].required
                           /\ ~gen_table.fields[i].deprecated}
        IN  /\ Checked = req
            /\ Len(table_code.finish) = Cardinality(req)
            /\ builder.result \in {"none", "ok", "RequiredFieldMissing"}
            /\ builder.result # "none" =>
                   (builder.result = "RequiredFieldMissing"
                        <=> \E i \in req : i \notin builder.added)

C11_Witness ==
    /\ builder.result = "RequiredFieldMissing"
    /\ builder.added # {}
    /\ \E i \in 1..Len(gen_table.fields) :
           /\ gen_table.fields[i].required /\ ~gen_table.fields[i].deprecated
           /\ i \notin builder.added

Width(i) == SizeOf(gen_table.fields[i].type.base_type)

\* C12: create() calls the add-operation of every field that has one (the
\* fields not deprecated) exactly once; with sortbysize a field of a larger
\* width comes before a field of a smaller width and, inside one width, a
\* field declared later comes first; without sortbysize a field declared later
\* comes first.  Fields of widths 8, 1, 4 with sortbysize are added as the
\* 8-byte, the 4-byte, the 1-byte field.
C12_CreateOrder ==
    table_code.status = "emitted" =>
        LET adds == table_code.create
            n == Len(adds)
        IN  /\ \A i \in 1..Len(gen_table.fields) :
                   Cardinality({k \in 1..n : adds[k].field = i})
                       = (IF gen_table.fields[i].deprecated THEN 0 ELSE 1)
            /\ \A a, b \in 1..n :
                   a < b =>
                       IF gen_table.sortbysize
                       THEN \/ Width(adds[a].field) > Width(adds[b].field)
                            \/ /\ Width(adds[a].field) = Width(adds[b].field)
                               /\ adds[a].field > adds[b].field
                       ELSE adds[a].field > adds[b].field
            /\ \A k \in 1..n : Width(adds[k].field) \in {8, 4, 2, 1}

C12_Witness ==
    /\ table_code.status = "emitted"
    /\ gen_table.sortbysize
    /\ Len(gen_table.fields) = 3
    /\ Width(1) = 8 /\ Width(2) = 1 /\ Width(3) = 4
    /\ Len(table_code.create) = 3
    /\ table_code.create[1].field = 1
    /\ table_code.create[2].field = 3
    /\ table_code.create[3].field = 2

\* The field of gen_table with the given name (0: none).
FieldNamed(name) ==
    IF \E i \in 1..Len(gen_table.fields) : gen_table.fields[i].name = name
    THEN CHOOSE i \in 1..Len(gen_table.fields) : gen_table.fields[i].name = name
    ELSE 0

C14_EveryFieldVerified ==
    table_code.status = "emitted" =>
        LET v == table_code.verifier
            own(k) == FieldNamed(v[k].names[Len(v[k].names)])
        IN  /\ v[1].kind = "visit_table"
            /\ \A k \in 2..Len(v) :
                   /\ v[k].kind \in {"visit_field", "visit_union"}
                   /\ own(k) # 0
                   /\ v[k].is_req = gen_table.fields[own(k)].required
            /\ \A a, b \in 2..Len(v) : a < b => own(a) < own(b)
            /\ \A i \in 1..Len(gen_table.fields) :
                   ~gen_table.fields[i].deprecated =>
                       Cardinality({k \in 2..Len(v) :
                           \E m \in 1..Len(v[k].names) :
                               v[k].names[m] = gen_table.fields[i].name}) = 1

\* ---------------------------------------------------------------------------
\* GenStruct: fixed structs as byte blobs, and the generated struct at run time
\* ---------------------------------------------------------------------------

MaxStructFields == 3

ScalarType(b) == [base_type |-> b, bytesize |-> 0, minalign |-> 0]

\* A field whose type is a fixed struct of the given bytesize and minalign.
NestedType(size, align) == [base_type |-> "STRUCT", bytesize |-> size, minalign |-> align]

IsStruct(t) == t.base_type = "STRUCT"

StructFieldTypes ==
    {ScalarType(b) : b \in {"UCHAR", "SHORT", "INT"}}
        \cup {NestedType(1, 1), NestedType(4, 4), NestedType(8, 4)}

\* The schema's layout of a fixed struct: a field occupies its inline size,
\* the size of the nested struct for a struct-typed field.
InlineSize(t) == IF IsStruct(t) THEN t.bytesize ELSE SizeOf(t.base_type)

InlineAlignment(t) == IF IsStruct(t) THEN t.minalign ELSE SizeOf(t.base_type)

RoundUp(n, a) == ((n + a - 1) \div a) * a

RECURSIVE OffsetOf(_, _)
\* field.value.offset of the k-th field: the end of the field before it,
\* rounded up to the field's alignment.
OffsetOf(types, k) ==
    IF k = 1 THEN 0
    ELSE RoundUp(OffsetOf(types, k - 1) + InlineSize(types[k - 1]),
                 InlineAlignment(types[k]))

MinAlign(types) ==
    CHOOSE a \in {InlineAlignment(types[k]) : k \in 1..Len(types)} :
        \A k \in 1..Len(types) : InlineAlignment(types[k]) <= a

\* struct_def.bytesize: the end of the last field, rounded up to minalign.
ByteSizeOf(types) ==
    RoundUp(OffsetOf(types, Len(types)) + InlineSize(types[Len(types)]),
            MinAlign(types))

\* field.padding: the bytes between the end of the field and the next field
\* (the end of the struct for the last field).
PaddingOf(types, k) ==
    (IF k < Len(types) THEN OffsetOf(types, k + 1) ELSE ByteSizeOf(types))
        - OffsetOf(types, k) - InlineSize(types[k])

FixedDef(types) ==
    [fields |-> [k \in 1..Len(types) |->
                    [type |-> types[k], offset |-> OffsetOf(types, k),
                     padding |-> PaddingOf(types, k)]],
     bytesize |-> ByteSizeOf(types)]

FixedDefs ==
    {FixedDef(q) : q \in SeqsUpTo(StructFieldTypes, MaxStructFields) \ {<<>>}}

RECURSIVE OffsetToField(_, _)
\* ForAllStructFields: FIELD_OFFSET of the k-th field, the running sum
\* offset_to_field += SizeOf(base_type) + padding over the fields before it.
OffsetToField(sd, k) ==
    IF k = 1 THEN 0
    ELSE OffsetToField(sd, k - 1)
             + SizeOf(sd.fields[k - 1].type.base_type) + sd.fields[k - 1].padding

\* The getter and the setter emitted for the k-th field: FIELD_OFFSET, and the
\* bytes they copy: size_of::<FIELD_TYPE>() for a scalar, FIELD_SIZE (the
\* nested struct's bytesize) for a struct.
StructAccessors(sd, k) ==
    [offset |-> OffsetToField(sd, k),
     is_struct |-> IsStruct(sd.fields[k].type),
     width |-> IF IsStruct(sd.fields[k].type) THEN sd.fields[k].type.bytesize
               ELSE SizeOf(sd.fields[k].type.base_type)]

GenStructCode(sd) ==
    [status |-> "emitted",
     size |-> sd.bytesize,
     fields |-> [k \in 1..Len(sd.fields) |-> StructAccessors(sd, k)]]

Pow256(k) == IF k = 0 THEN 1 ELSE IF k = 1 THEN 256 ELSE IF k = 2 THEN 65536 ELSE 16777216

\* x.to_little_endian() viewed as bytes: the w bytes of x, lowest first.
ToLittleEndian(x, w) == [k \in 1..w |-> (x \div Pow256(k - 1)) % 256]

RECURSIVE FromLittleEndian(_)
\* from_little_endian of the bytes copied out of the blob.
FromLittleEndian(b) ==
    IF Len(b) = 0 THEN 0 ELSE b[1] + 256 * FromLittleEndian(Tail(b))

\* A byte read from outside the blob.
Garbage == 9

\* bytes with data written at positions off+1 .. off+Len(data); what falls
\* outside bytes is dropped.
Overwrite(bytes, off, data) ==
    [k \in 1..Len(bytes) |->
        IF k > off /\ k <= off + Len(data) THEN data[k - off] ELSE bytes[k]]

\* The emitted set_<field>(x) on the blob `bytes`.  A struct field is written
\* with copy_from_slice into self.0[off..off+size], which panics when the range
\* leaves the blob.  A scalar is written with copy_nonoverlapping to
\* self.0[off..].as_mut_ptr(): the slice panics when off is past the end, and
\* a copy that runs past the end is undefined behaviour.
SetField(code, bytes, k, x, ub) ==
    LET f == code.fields[k]
        n == Len(bytes)
    IN  IF f.is_struct
        THEN IF f.offset + f.width > n THEN [status |-> "panic", bytes |-> bytes]
             ELSE [status |-> "ok", bytes |-> Overwrite(bytes, f.offset, x.bytes)]
        ELSE IF f.offset > n THEN [status |-> "panic", bytes |-> bytes]
             ELSE IF f.offset + f.width > n /\ ub = "crash"
                  THEN [status |-> "crash", bytes |-> bytes]
                  ELSE [status |-> "ok",
                        bytes |-> Overwrite(bytes, f.offset,
                                            ToLittleEndian(x.int, f.width))]

\* The bytes a getter reads at off+1 .. off+w.
ReadBytes(bytes, off, w) ==
    [k \in 1..w |-> IF off + k <= Len(bytes) THEN bytes[off + k] ELSE Garbage]

Panicked == [int |-> -1, bytes |-> <<>>]

\* The emitted <field>() on the blob `bytes`: a reference into the blob for a
\* struct field, a copy converted from little endian for a scalar.  Either
\* takes self.0[off..], which panics when off is past the end; a read that
\* runs past the end is undefined behaviour.
GetField(code, bytes, k, ub) ==
    LET f == code.fields[k]
        n == Len(bytes)
    IN  IF f.offset > n \/ (f.offset + f.width > n /\ ub = "crash") THEN Panicked
        ELSE IF f.is_struct
             THEN [int |-> 0, bytes |-> ReadBytes(bytes, f.offset, f.width)]
             ELSE [int |-> FromLittleEndian(ReadBytes(bytes, f.offset, f.width)),
                   bytes |-> <<>>]

GetAll(code, bytes, ub) == [k \in 1..Len(code.fields) |-> GetField(code, bytes, k, ub)]

RECURSIVE SetFrom(_, _, _, _, _)
\* new(): the s.set_<field>(<field>) calls from the k-th on.
SetFrom(code, bytes, args, k, ub) ==
    IF k > Len(code.fields) THEN [status |-> "ok", bytes |-> bytes]
    ELSE LET r == SetField(code, bytes, k, args[k], ub)
         IN  IF r.status # "ok" THEN r
             ELSE SetFrom(code, r.bytes, args, k + 1, ub)

\* new(): let mut s = Self([0; STRUCT_SIZE]); then one setter per field.
NewStruct(code, args, ub) ==
    SetFrom(code, [k \in 1..code.size |-> 0], args, 1, ub)

\* Values of a field: two integers whose bytes differ for a scalar, one blob
\* of nonzero bytes for a nested struct.
ValuesOf(t) ==
    IF IsStruct(t) THEN {[int |-> 0, bytes |-> [k \in 1..t.bytesize |-> 7]]}
    ELSE IF SizeOf(t.base_type) = 1 THEN {[int |-> 1, bytes |-> <<>>],
                                          [int |-> 2, bytes |-> <<>>]}
    ELSE {[int |-> 258, bytes |-> <<>>], [int |-> 513, bytes |-> <<>>]}

ArgsOf(sd) ==
    {a \in [1..Len(sd.fields) -> UNION {ValuesOf(t) : t \in StructFieldTypes}] :
        \A k \in 1..Len(sd.fields) : a[k] \in ValuesOf(sd.fields[k].type)}

FixedInit ==
    /\ ndebug \in BOOLEAN
    /\ gen_struct \in FixedDefs
    /\ struct_code = NoStructCode
    /\ object = NoObject
    /\ ClassifierIdle /\ ResolverIdle /\ DriverIdle /\ FieldIdle
    /\ TableGenIdle /\ EnumIdle /\ LateIdle

fixedFrame == <<ndebug, gen_struct, classifierVars, resolverVars, driverVars,
                field, accessor, add_func, gen_table, table_code, builder,
                verify, enumVars, lateVars>>

\* GenStruct(gen_struct): the parts of its output kept in struct_code.
GenStruct ==
    /\ struct_code.status = "unset"
    /\ struct_code' = GenStructCode(gen_struct)
    /\ UNCHANGED <<object, fixedFrame>>

\* Run time: new(args) of the generated struct, then every getter.
New ==
    /\ struct_code.status = "emitted"
    /\ object.status = "none"
    /\ \E args \in ArgsOf(gen_struct), ub \in UBOutcomes :
           LET r == NewStruct(struct_code, args, ub)
           IN  object' = [status |-> IF r.status = "ok" THEN "new" ELSE r.status,
                          bytes |-> r.bytes, args |-> args, before |-> <<>>,
                          set_field |-> 0, set_value |-> NoValue,
                          got |-> IF r.status = "ok"
                                  THEN GetAll(struct_code, r.bytes, ub) ELSE <<>>]
    /\ UNCHANGED <<struct_code, fixedFrame>>

\* Run time: set_<field k>(x) on a constructed struct, then every getter.
Set(k) ==
    /\ struct_code.status = "emitted"
    /\ object.status = "new"
    /\ \E x \in ValuesOf(gen_struct.fields[k].type), ub \in UBOutcomes :
           LET r == SetField(struct_code, object.bytes, k, x, ub)
           IN  object' = [status |-> IF r.status = "ok" THEN "set" ELSE r.status,
                          bytes |-> r.bytes, args |-> object.args,
                          before |-> object.bytes,
                          set_field |-> k, set_value |-> x,
                          got |-> IF r.status = "ok"
                                  THEN GetAll(struct_code, r.bytes, ub) ELSE <<>>]
    /\ UNCHANGED <<struct_code, fixedFrame>>

FixedNext ==
    \/ GenStruct
    \/ New
    \/ \E k \in 1..Len(gen_struct.fields) : Set(k)

SpecGenStruct == FixedInit /\ [][FixedNext]_vars

\* C15: the offset in the emitted getter and setter of every field of every
\* fixed struct is the field's offset in the schema, also after a nested
\* struct whose size is not 4 bytes and after fields with padding.
C15_EmittedOffsetIsSchemaOffset ==
    struct_code.status = "emitted" =>
        \A k \in 1..Len(gen_struct.fields) :
            struct_code.fields[k].offset = gen_struct.fields[k].offset

\* C16: round trip on a generated fixed struct: after set_f(v) the getter f()
\* returns v, and after new(v1, ..., vn) the getter of the i-th field returns
\* vi, for every layout.
C16_StructRoundTrip ==
    /\ object.status \in {"none", "new", "set"}
    /\ object.status = "new" =>
           \A k \in 1..Len(gen_struct.fields) : object.got[k] = object.args[k]
    /\ object.status = "set" => object.got[object.set_field] = object.set_value

\* The bytes of the blob that belong to the k-th field in the schema.
FieldRange(k) ==
    {b \in 1..gen_struct.bytesize :
        /\ b > gen_struct.fields[k].offset
        /\ b <= gen_struct.fields[k].offset + InlineSize(gen_struct.fields[k].type)}

\* C17: new() leaves every byte of the blob that belongs to no field 0, and a
\* setter writes only bytes of its own field.
C17_PaddingStaysZero ==
    /\ object.status = "new" =>
           \A b \in 1..gen_struct.bytesize :
               (\A k \in 1..Len(gen_struct.fields) : b \notin FieldRange(k))
                   => object.bytes[b] = 0
    /\ object.status = "set" =>
           \A b \in 1..gen_struct.bytesize :
               b \notin FieldRange(object.set_field)
                   => object.bytes[b] = object.before[b]

\* ---------------------------------------------------------------------------
\* GenEnum: the items emitted for an enum, and the generated enum at run time
\* ---------------------------------------------------------------------------

MaxVariant == 2

\* EnumDefs of the schema: at least one value; a bit_flags enum stores 1 << v
\* for a declared v.
EnumDefs ==
    {[vals |-> IF bf THEN {2 ^ v : v \in S} ELSE S, is_union |-> u, bit_flags |-> bf] :
        S \in (SUBSET (0..MaxVariant)) \ {{}}, u \in BOOLEAN, bf \in BOOLEAN}

\* enum_def.ToString(ev) for the values of the model.
Str(x) == IF x < 0 THEN <<"-", Digits[1 - x]>> ELSE <<Digits[x + 1]>>

\* Name(ev): the variant declared with value v.
VariantOf(v) == <<"V">> \o Str(v)

IsBitFlagsEnum(ed) == ed.bit_flags

VariantNameArms_WholeRange(ed) ==
    LET lo == SortedSeq(ed.vals)[1]
        hi == SortedSeq(ed.vals)[Cardinality(ed.vals)]
    IN  [k \in 1..(hi - lo + 1) |->
            [value |-> lo + k - 1,
             name |-> VariantOf(IF lo + k - 1 \in ed.vals THEN lo + k - 1 ELSE lo)]]

\* The arms `Self::V => Some("V")` of variant_name, one per declared value in
\* the order of Vals(); the match ends with `_ => None`.
VariantNameArms(ed) ==
    LET vs == SortedSeq(ed.vals)
    IN  [k \in 1..Len(vs) |-> [value |-> vs[k], name |-> VariantOf(vs[k])]]

EnumGlue_ClosedOnly(ed) ==
    IF IsBitFlagsEnum(ed) THEN <<"Verifiable", "SimpleToVerifyInSlice">>
    ELSE <<"Follow", "Push", "EndianScalar", "Verifiable", "SimpleToVerifyInSlice">>

\* The impls emitted after either branch.
EnumGlue(ed) ==
    <<"Follow", "Push", "EndianScalar", "Verifiable", "SimpleToVerifyInSlice">>

\* The items GenEnum emits, in order.
GenEnumItems(ed) ==
    (IF IsBitFlagsEnum(ed)
     THEN <<"bitflags!">>
     ELSE <<"ENUM_MIN_", "ENUM_MAX_", "ENUM_VALUES_", "struct", "consts",
            "variant_name", "Debug">>
              \o (IF ed.is_union THEN <<"UnionTableOffset">> ELSE <<>>))
        \o EnumGlue(ed)

GenEnumCode(ed) ==
    [status |-> "emitted",
     items |-> GenEnumItems(ed),
     arms |-> IF IsBitFlagsEnum(ed) THEN <<>> ELSE VariantNameArms(ed)]

Emitted(item) == \E k \in 1..Len(enum_code.items) : enum_code.items[k] = item

\* The emitted variant_name on Self(x): the first arm whose constant is x,
\* <<>> for None.
VariantName(arms, x) ==
    LET hit == {k \in 1..Len(arms) : arms[k].value = x}
    IN  IF hit = {} THEN <<>>
        ELSE arms[CHOOSE k \in hit : \A m \in hit : k <= m].name

\* The emitted Debug::fmt on Self(x).
Fmt(arms, x) ==
    IF VariantName(arms, x) # <<>> THEN VariantName(arms, x)
    ELSE <<"<UNKNOWN ">> \o Str(x) \o <<">">>

\* Integers of the underlying type: below, between, among and above the
\* declared values.
LookupArgs == (-1)..(MaxVariant + 1)

EnumInit ==
    /\ ndebug \in BOOLEAN
    /\ gen_enum \in EnumDefs
    /\ enum_code = NoEnumCode
    /\ lookup = NoLookup
    /\ ClassifierIdle /\ ResolverIdle /\ DriverIdle /\ FieldIdle
    /\ TableGenIdle /\ FixedIdle /\ LateIdle

enumFrame == <<ndebug, gen_enum, classifierVars, resolverVars, driverVars,
               field, accessor, add_func, gen_table, table_code, builder,
               verify, fixedVars, lateVars>>

\* GenEnum(gen_enum): the parts of its output kept in enum_code.
GenEnum ==
    /\ enum_code.status = "unset"
    /\ enum_code' = GenEnumCode(gen_enum)
    /\ UNCHANGED <<lookup, enumFrame>>

\* Run time: Self(x).variant_name() of the generated enum.
CallVariantName ==
    /\ enum_code.status = "emitted"
    /\ Emitted("variant_name")
    /\ \E x \in LookupArgs :
           lookup' = [status |-> "variant_name", arg |-> x,
                      name |-> VariantName(enum_code.arms, x), debug |-> <<>>]
    /\ UNCHANGED <<enum_code, enumFrame>>

\* Run time: format!("{:?}", Self(x)) through the emitted Debug impl.
CallFmt ==
    /\ enum_code.status = "emitted"
    /\ Emitted("Debug")
    /\ \E x \in LookupArgs :
           lookup' = [status |-> "fmt", arg |-> x,
                      name |-> VariantName(enum_code.arms, x),
                      debug |-> Fmt(enum_code.arms, x)]
    /\ UNCHANGED <<enum_code, enumFrame>>

EnumNext == GenEnum \/ CallVariantName \/ CallFmt

SpecGenEnum == EnumInit /\ [][EnumNext]_vars

C19_EveryEnumGetsGlueAndDebug ==
    enum_code.status = "emitted" =>
        \A item \in {"Follow", "Push", "EndianScalar", "Debug"} : Emitted(item)

\* C19 amended: every enum, bit-flag or closed, gets Follow, Push and
\* EndianScalar from the generator; a closed enum, and no bit-flag enum, also
\* gets a Debug impl from it, which prints the name of a declared value and
\* <UNKNOWN x> for any other integer x.
C19_GlueForAllDebugForClosed ==
    /\ enum_code.status = "emitted" =>
           /\ \A item \in {"Follow", "Push", "EndianScalar"} :
                  Cardinality({k \in 1..Len(enum_code.items) :
                                  enum_code.items[k] = item}) = 1
           /\ Emitted("Debug") <=> ~gen_enum.bit_flags
    /\ lookup.status = "fmt" =>
           lookup.debug = IF lookup.arg \in gen_enum.vals THEN VariantOf(lookup.arg)
                          ELSE <<"<UNKNOWN ">> \o Str(lookup.arg) \o <<">">>

C19_Witness ==
    /\ lookup.status = "fmt"
    /\ lookup.arg \notin gen_enum.vals
    /\ lookup.debug = <<"<UNKNOWN ", "3", ">">>
    /\ Emitted("EndianScalar")

\* C20: GenEnum emits exactly one <EnumName>UnionTableOffset for an enum that
\* is a union discriminant, bit-flag or not, and none for any other enum.
C20_OneUnionTableOffset ==
    enum_code.status = "emitted" =>
        Cardinality({k \in 1..Len(enum_code.items) :
                        enum_code.items[k] = "UnionTableOffset"})
            = IF gen_enum.is_union THEN 1 ELSE 0

\* ---------------------------------------------------------------------------
\* GenRootTableFuncs: the helpers of the root table
\* ---------------------------------------------------------------------------

MaxExtensionLen == 2

MaxIdentifierLen == 2

\* Characters of file identifiers and extensions.
IdChars == {"M", "O"}

RootOpts ==
    {[file_identifier_ |-> i, file_extension_ |-> e] :
        i \in SeqsUpTo(IdChars, MaxIdentifierLen),
        e \in SeqsUpTo(IdChars, MaxExtensionLen)}

\* An emitted item: a function or a constant, the constants its body names,
\* the string a constant holds, the identifier argument a finish helper passes.
RootItem(kind, name, refs, value, ident) ==
    [kind |-> kind, name |-> name, refs |-> refs, value |-> value, ident |-> ident]

RootAccessors ==
    <<RootItem("fn", "get_root_as_", {}, <<>>, "-"),
      RootItem("fn", "get_size_prefixed_root_as_", {}, <<>>, "-"),
      RootItem("fn", "root_as_", {}, <<>>, "-"),
      RootItem("fn", "size_prefixed_root_as_", {}, <<>>, "-"),
      RootItem("fn", "root_as_with_opts", {}, <<>>, "-"),
      RootItem("fn", "size_prefixed_root_as_with_opts", {}, <<>>, "-"),
      RootItem("fn", "root_as_unchecked", {}, <<>>, "-"),
      RootItem("fn", "size_prefixed_root_as_unchecked", {}, <<>>, "-")>>

FinishArg_AlwaysSome(p) == RootItem("-", "-", {"IDENTIFIER"}, <<>>, "Some")

\* The second argument of fbb.finish / fbb.finish_size_prefixed.
FinishArg(p) ==
    IF Len(p.file_identifier_) # 0
    THEN RootItem("-", "-", {"IDENTIFIER"}, <<>>, "Some")
    ELSE RootItem("-", "-", {}, <<>>, "None")

GenRootTableFuncs(p) ==
    RootAccessors
        \o (IF Len(p.file_identifier_) # 0
            THEN <<RootItem("const", "IDENTIFIER", {}, p.file_identifier_, "-"),
                   RootItem("fn", "buffer_has_identifier", {"IDENTIFIER"}, <<>>, "-"),
                   RootItem("fn", "size_prefixed_buffer_has_identifier",
                        {"IDENTIFIER"}, <<>>, "-")>>
            ELSE <<>>)
        \o (IF Len(p.file_extension_) # 0
            THEN <<RootItem("const", "EXTENSION", {}, p.file_extension_, "-")>>
            ELSE <<>>)
        \o <<RootItem("fn", "finish_buffer", FinishArg(p).refs, <<>>, FinishArg(p).ident),
             RootItem("fn", "finish_size_prefixed_buffer", FinishArg(p).refs, <<>>,
                  FinishArg(p).ident)>>

RootInit ==
    /\ ndebug \in BOOLEAN
    /\ root_opts \in RootOpts
    /\ root_code = NoRootCode
    /\ root_buf = NoRootBuf
    /\ ClassifierIdle /\ ResolverIdle /\ DriverIdle /\ FieldIdle
    /\ TableGenIdle /\ FixedIdle /\ EnumIdle /\ KeywordIdle /\ IdentIdle

rootFrame == <<ndebug, root_opts, classifierVars, resolverVars, driverVars,
               field, accessor, add_func, gen_table, table_code, builder,
               verify, fixedVars, enumVars, keywordVars, identVars>>

\* GenRootTableFuncs(root struct): the items it emits.
GenRoot ==
    /\ root_code.status = "unset"
    /\ root_code' = [status |-> "emitted", items |-> GenRootTableFuncs(root_opts)]
    /\ UNCHANGED <<root_buf, rootFrame>>

\* The items of root_code with the given kind and name.
RootItems(kind, name) ==
    {k \in 1..Len(root_code.items) :
        root_code.items[k].kind = kind /\ root_code.items[k].name = name}

\* Run time: one of the two emitted finish helpers; a helper whose body names
\* a constant that was not emitted does not compile.
CallFinishBuffer ==
    /\ root_code.status = "emitted"
    /\ root_buf.status = "none"
    /\ \E sp \in BOOLEAN :
           LET h == root_code.items[CHOOSE k \in 1..Len(root_code.items) :
                        root_code.items[k].name =
                            IF sp THEN "finish_size_prefixed_buffer"
                            ELSE "finish_buffer"]
           IN  root_buf' =
                   IF \E c \in h.refs : RootItems("const", c) = {}
                   THEN [status |-> "compile_error", size_prefixed |-> sp,
                         identifier |-> <<>>]
                   ELSE [status |-> "finished", size_prefixed |-> sp,
                         identifier |->
                             IF h.ident = "Some"
                             THEN root_code.items[CHOOSE k \in
                                      RootItems("const", "IDENTIFIER") : TRUE].value
                             ELSE <<>>]
    /\ UNCHANGED <<root_code, rootFrame>>

RootNext == GenRoot \/ CallFinishBuffer

SpecRoot == RootInit /\ [][RootNext]_vars

\* C21: the identifier constant and the two buffer_has_identifier helpers are
\* emitted exactly when a file identifier is declared, the extension constant
\* exactly when an extension is declared; the two finish helpers are always
\* emitted and pass Some(identifier constant) exactly when the identifier is
\* declared, None otherwise; no emitted item names a constant that was not
\* emitted.
C21_RootHelpers ==
    /\ root_code.status = "emitted" =>
           LET hasId == Len(root_opts.file_identifier_) # 0
               hasExt == Len(root_opts.file_extension_) # 0
               n(kind, name) == Cardinality(RootItems(kind, name))
           IN  /\ n("const", "IDENTIFIER") = (IF hasId THEN 1 ELSE 0)
               /\ n("fn", "buffer_has_identifier") = (IF hasId THEN 1 ELSE 0)
               /\ n("fn", "size_prefixed_buffer_has_identifier")
                      = (IF hasId THEN 1 ELSE 0)
               /\ n("const", "EXTENSION") = (IF hasExt THEN 1 ELSE 0)
               /\ n("fn", "finish_buffer") = 1
               /\ n("fn", "finish_size_prefixed_buffer") = 1
               /\ \A k \in RootItems("fn", "finish_buffer")
                               \cup RootItems("fn", "finish_size_prefixed_buffer") :
                      root_code.items[k].ident = IF hasId THEN "Some" ELSE "None"
               /\ \A k \in 1..Len(root_code.items) :
                      \A c \in root_code.items[k].refs : n("const", c) = 1
               /\ \A k \in RootItems("const", "IDENTIFIER") :
                      root_code.items[k].value = root_opts.file_identifier_
               /\ \A k \in RootItems("const", "EXTENSION") :
                      root_code.items[k].value = root_opts.file_extension_
    /\ root_buf.status # "none" =>
           /\ root_buf.status = "finished"
           /\ root_buf.identifier = root_opts.file_identifier_

C21_Witness ==
    /\ root_buf.status = "finished"
    /\ root_buf.size_prefixed
    /\ root_opts.file_identifier_ = <<>>
    /\ root_opts.file_extension_ # <<>>
    /\ RootItems("const", "EXTENSION") # {}

\* ---------------------------------------------------------------------------
\* EscapeKeyword and the reserved words
\* ---------------------------------------------------------------------------

\* A name is a word followed by the '_' characters appended to it.
Word(w) == <<w>>

nullptr == <<>>

\* const char *keywords[], in the order of the constructor.
keywords ==
    <<Word("as"), Word("break"), Word("const"), Word("continue"), Word("crate"),
      Word("else"), Word("enum"), Word("extern"), Word("false"), Word("fn"),
      Word("for"), Word("if"), Word("impl"), Word("in"), Word("let"),
      Word("loop"), Word("match"), Word("mod"), Word("move"), Word("mut"),
      Word("pub"), Word("ref"), Word("return"), Word("Self"), Word("self"),
      Word("static"), Word("struct"), Word("super"), Word("trait"),
      Word("true"), Word("type"), Word("unsafe"), Word("use"), Word("where"),
      Word("while"),
      Word("abstract"), Word("alignof"), Word("become"), Word("box"),
      Word("do"), Word("final"), Word("macro"), Word("offsetof"),
      Word("override"), Word("priv"), Word("proc"), Word("pure"),
      Word("sizeof"), Word("typeof"), Word("unsized"), Word("virtual"),
      Word("yield"),
      Word("std"), Word("usize"), Word("isize"), Word("u8"), Word("i8"),
      Word("u16"), Word("i16"), Word("u32"), Word("i32"), Word("u64"),
      Word("i64"), Word("u128"), Word("i128"), Word("f32"), Word("f64"),
      Word("follow"), Word("push"), Word("size"), Word("alignment"),
      Word("to_little_endian"), Word("from_little_endian"), nullptr,
      Word("ENUM_MAX"), Word("ENUM_MIN"), Word("ENUM_VALUES")>>

RECURSIVE InsertFrom(_)
\* for (auto kw = keywords; *kw; kw++) keywords_.insert(*kw);
InsertFrom(kw) ==
    IF keywords[kw] = nullptr THEN {}
    ELSE {keywords[kw]} \cup InsertFrom(kw + 1)

keywords_ == InsertFrom(1)

EscapeKeyword(name) ==
    IF name \notin keywords_ THEN name ELSE name \o <<"_">>

\* Every string listed in the array.
ListedWords == {keywords[k] : k \in 1..Len(keywords)} \ {nullptr}

\* Names of a schema: the listed words, words that are not listed, and each of
\* them with a '_' already appended.
SchemaNames ==
    LET words == ListedWords
                     \cup {Word("monster"), Word("Type"), Word("enum_max"),
                           Word("Enum"), Word("pos")}
    IN  words \cup {w \o <<"_">> : w \in words}

KeywordInit ==
    /\ ndebug \in BOOLEAN
    /\ kw_name \in SchemaNames
    /\ kw_out = <<"?">>
    /\ ClassifierIdle /\ ResolverIdle /\ DriverIdle /\ FieldIdle
    /\ TableGenIdle /\ FixedIdle /\ EnumIdle /\ RootIdle /\ IdentIdle

\* Name(def): EscapeKeyword(def.name).
Escape ==
    /\ kw_out = <<"?">>
    /\ kw_out' = EscapeKeyword(kw_name)
    /\ UNCHANGED <<ndebug, kw_name, classifierVars, resolverVars, driverVars,
                   field, accessor, add_func, gen_table, table_code, builder,
                   verify, fixedVars, enumVars, rootVars, identVars>>

SpecKeyword == KeywordInit /\ [][Escape]_vars

\* C22: EscapeKeyword returns every string listed in the reserved-word array
\* with one '_' appended and every other name unchanged, and never returns a
\* listed string.
C22_ListedWordsEscaped ==
    kw_out # <<"?">> =>
        /\ kw_out = IF kw_name \in ListedWords THEN kw_name \o <<"_">> ELSE kw_name
        /\ kw_out \notin ListedWords

\* ---------------------------------------------------------------------------
\* generate(): failures during the pass and the output file
\* ---------------------------------------------------------------------------

\* The tail of generate() after the pass over a table with the one field
\* `field`: SaveFile.  A process an assertion aborted does not get here.
SaveFile ==
    /\ accessor.status \in {"emitted", "skipped"}
    /\ add_func.status \in {"emitted", "skipped"}
    /\ ~saved
    /\ saved' = TRUE
    /\ UNCHANGED <<ndebug, field, accessor, add_func, classifierVars,
                   resolverVars, cur_name_space_, code_, pc, ns_it, parser_,
                   genVars>>

PassNext == GenAccessor \/ GenBuilderAdd \/ SaveFile

SpecPass == TableInit /\ [][PassNext]_vars

\* The pass over f meets a failed precondition: one of the generator's
\* assertions is false.
FailureRaised(f) ==
    \E ub \in UBOutcomes :
        \/ EmitAccessor(f, FALSE, ub).status = "abort"
        \/ EmitAddFunc(f, FALSE, ub).status = "abort"

\* C23: the output file is written only after everything was emitted, never
\* when a generation failure was raised during the pass, and never with the
\* placeholder INVALID_CODE_GENERATION in it.
C23_NoFileAfterFailure ==
    saved =>
        /\ accessor.status \in {"emitted", "skipped"}
        /\ add_func.status \in {"emitted", "skipped"}
        /\ ~FailureRaised(field)
        /\ accessor.return_type # InvalidCodeGeneration
        /\ add_func.func_body # InvalidCodeGeneration

\* ---------------------------------------------------------------------------
\* Defaults and accessor shapes of table fields
\* ---------------------------------------------------------------------------

IsEnumTyped(ty) == IsPlainEnumType(ty) \/ IsUnionKeyType(ty)

\* C24: for a table field that is not deprecated, GetDefaultScalarValue
\* yields, when the field is of enum type and not optional, the name of the
\* declared enum value equal to the field's default constant, whatever
\* constant the schema declares (a bit-flag enum declares only nonzero values
\* and its fields default to 0); it yields None for an optional field of
\* scalar kind and for every reference-typed field.
C24_EnumDefaultIsDeclaredValue ==
    (accessor.status # "unset" /\ ~field.deprecated /\ Representable(field.type)) =>
        \A ub \in UBOutcomes :
            LET dv == GetDefaultScalarValue(field, ndebug, ub)
            IN  /\ (IsEnumTyped(field.type) /\ ~field.optional) =>
                       /\ accessor.status = "emitted"
                       /\ dv = <<"E::V", field.constant[1]>>
                       /\ StringToInt(field.constant) \in field.enum_vals
                /\ (IsScalarKind(field.type) /\ field.optional) => dv = None
                /\ IsReferenceTyped(field.type) => dv = None

\* C25: for every table field of a supported type and every setting of
\* optional and required, the emitted accessor body unwraps exactly when the
\* declared return type is not Option<..>, and passes Some(default) to the
\* read only when the return type is the bare scalar-kind value.
C25_BodyAgreesWithReturnType ==
    (accessor.status = "emitted" /\ Representable(field.type)) =>
        LET rt == accessor.return_type
            dv == accessor.body.default_value
        IN  /\ accessor.body.unwrap <=> ~IsOptionType(rt)
            /\ dv[1] = "Some(" => (~IsOptionType(rt) /\ IsScalarKind(field.type))

\* C29: for every field of scalar kind that is not optional, the default the
\* builder's add function compares against before skipping the write is the
\* default the accessor passes to the read, so a field left unset, or set to
\* its default and skipped, reads back as that same value.
C29_SameDefaultWrittenAndRead ==
    (/\ accessor.status = "emitted" /\ add_func.status = "emitted"
     /\ IsScalarKind(field.type) /\ ~field.optional) =>
        /\ Len(add_func.args) = 3
        /\ accessor.body.default_value = <<"Some(">> \o add_func.args[3] \o <<")">>
        /\ add_func.func_body[1] = "self.fbb_.push_slot::<"

C29_Witness ==
    /\ accessor.status = "emitted" /\ add_func.status = "emitted"
    /\ IsScalarKind(field.type) /\ ~field.optional
    /\ field.type.base_type = "BOOL" /\ field.type.enum_def = "null"
    /\ field.constant = <<"1">>
    /\ add_func.args[3] = <<"true">>

\* ---------------------------------------------------------------------------
\* Fixed structs: the bytes the setters write
\* ---------------------------------------------------------------------------

\* The bytes of the blob the emitted setter of the k-th field writes, which
\* are the bytes its getter reads.
WriteRange(code, k) ==
    {b \in 1..code.size :
        b > code.fields[k].offset /\ b <= code.fields[k].offset + code.fields[k].width}

\* C27: in a generated fixed struct the byte ranges written by the setters of
\* two distinct fields are disjoint, and set_f(v) leaves the value every other
\* getter g() returns as it was, for every layout, nested structs included.
C27_SettersDoNotOverlap ==
    /\ struct_code.status = "emitted" =>
           \A j, k \in 1..Len(struct_code.fields) :
               j # k => WriteRange(struct_code, j) \cap WriteRange(struct_code, k) = {}
    /\ object.status = "set" =>
           \A g \in 1..Len(struct_code.fields) :
               g # object.set_field =>
                   GetField(struct_code, object.bytes, g, "garbage")
                       = GetField(struct_code, object.before, g, "garbage")

\* ---------------------------------------------------------------------------
\* create() over tables with fields of every kind
\* ---------------------------------------------------------------------------

VectorOf(b) ==
    [base_type |-> "VECTOR", element |-> b, struct_def |-> "null", enum_def |-> "null"]

StructRef(sd) ==
    [base_type |-> "STRUCT", element |-> "NONE", struct_def |-> sd, enum_def |-> "null"]

\* Fields of every kind create() meets: scalars of the four widths, a string,
\* a vector, a table, an inline struct, each deprecated or not.
CreateShapes ==
    {Shape(ty, FALSE, d, {}) :
        ty \in {PlainType(b) : b \in {"UCHAR", "SHORT", "INT", "LONG", "STRING"}}
                   \cup {VectorOf("INT"), StructRef("table"), StructRef("fixed")},
        d \in BOOLEAN}

\* Tables of such fields, and tables of a union with one such field after it.
CreateDefs ==
    {[fields |-> Named(q), sortbysize |-> b] :
        q \in SeqsUpTo(CreateShapes, MaxTableFields)
                 \cup {u \o <<x>> : x \in CreateShapes, u \in UnionPairs},
        b \in BOOLEAN}

CreateInit ==
    /\ ndebug \in BOOLEAN
    /\ gen_table \in CreateDefs
    /\ table_code = NoTableCode
    /\ builder = NoBuilder
    /\ verify = NoVerify
    /\ ClassifierIdle /\ ResolverIdle /\ DriverIdle /\ FieldIdle
    /\ FixedIdle /\ EnumIdle /\ LateIdle

SpecCreate == CreateInit /\ [][GenTable]_vars

LowerWord(w) ==
    CASE w = "Self" -> "self"
      [] w = "Type" -> "type"
      [] w = "Enum" -> "enum"
      [] w = "ENUM_MAX" -> "enum_max"
      [] w = "ENUM_MIN" -> "enum_min"
      [] w = "ENUM_VALUES" -> "enum_values"
      [] OTHER -> w

\* CharToUpper over the characters of one word: '_' stays, "_type" becomes
\* "_TYPE", spellings that differ only in case become the same word.
UpperWord(w) ==
    IF w = "_" THEN "_"
    ELSE IF w = "_type" THEN "_TYPE"
    ELSE "UPPER(" \o LowerWord(w) \o ")"

MakeUpper(in) == [k \in 1..Len(in) |-> UpperWord(in[k])]

GetFieldOffsetName(name) == <<"VT_">> \o MakeUpper(EscapeKeyword(name))

\* The name the parser gives the discriminant field of the union field `name`.
UnionTypeFieldName(name) == name \o <<"_type">>

Ident(kind, by, name) == [kind |-> kind, by |-> by, name |-> name]

\* U_ELEMENT_NAME of the variant declared with value v.
ElementName(v) == MakeSnakeCase(VariantOf(v))

\* The functions and constants GenTable defines in the impl of a table whose
\* fields are the union `uf` and its discriminant: one VT_ constant and one
\* accessor per field, one <field>_as_<variant> per variant.
DefinedIdents(uf) ==
    LET key == UnionTypeFieldName(uf.name)
    IN  {Ident("const", "table", GetFieldOffsetName(key)),
         Ident("const", "table", GetFieldOffsetName(uf.name)),
         Ident("fn", "table", EscapeKeyword(key)),
         Ident("fn", "table", EscapeKeyword(uf.name))}
            \cup {Ident("fn", "table",
                        EscapeKeyword(uf.name) \o <<"_as_">> \o ElementName(v)) :
                     v \in uf.variants}

\* The identifiers of the table the emitted code refers to: the accessors
\* read their VT_ constant, <field>_as_<variant> calls the discriminant
\* accessor by the unescaped field name and the value accessor by FIELD_NAME;
\* the verifier names OFFSET_NAME with _TYPE appended and OFFSET_NAME; the
\* Debug impl calls FIELD_NAME with _type appended, the discriminant accessor
\* for the discriminant field, and <unescaped name>_as_<variant>.
ReferredIdents(uf) ==
    LET key == UnionTypeFieldName(uf.name)
    IN  {Ident("const", "accessor", GetFieldOffsetName(key)),
         Ident("const", "accessor", GetFieldOffsetName(uf.name)),
         Ident("fn", "accessor", uf.name \o <<"_type">>),
         Ident("fn", "accessor", EscapeKeyword(uf.name)),
         Ident("const", "verifier", GetFieldOffsetName(uf.name) \o <<"_TYPE">>),
         Ident("const", "verifier", GetFieldOffsetName(uf.name)),
         Ident("fn", "debug", EscapeKeyword(key)),
         Ident("fn", "debug", EscapeKeyword(uf.name) \o <<"_type">>)}
            \cup {Ident("fn", "debug", uf.name \o <<"_as_">> \o ElementName(v)) :
                     v \in uf.variants}

\* Union fields: a name of the schema and the declared variants besides NONE.
UnionFields ==
    {[name |-> n, variants |-> S] :
        n \in SchemaNames, S \in (SUBSET (1..MaxVariant)) \ {{}}}

IdentInit ==
    /\ ndebug \in BOOLEAN
    /\ union_field \in UnionFields
    /\ union_idents = NoUnionIdents
    /\ ClassifierIdle /\ ResolverIdle /\ DriverIdle /\ FieldIdle
    /\ TableGenIdle /\ FixedIdle /\ EnumIdle /\ RootIdle /\ KeywordIdle

\* GenTable for the table of union_field: the identifiers kept in union_idents.
GenUnionTable ==
    /\ union_idents.status = "unset"
    /\ union_idents' = [status |-> "emitted",
                        defined |-> DefinedIdents(union_field),
                        referred |-> ReferredIdents(union_field)]
    /\ UNCHANGED <<ndebug, union_field, classifierVars, resolverVars, driverVars,
                   field, accessor, add_func, gen_table, table_code, builder,
                   verify, fixedVars, enumVars, rootVars, keywordVars>>

SpecUnionNames == IdentInit /\ [][GenUnionTable]_vars

Resolves(r, defined) ==
    \E d \in defined : d.kind = r.kind /\ d.name = r.name

\* C26: for a union field of any name, reserved words included, every
\* function and constant of the table that the emitted accessors, verifier
\* and Debug impl refer to is spelled as one the generator defines.
C26_ReferencesResolve ==
    union_idents.status = "emitted" =>
        \A r \in union_idents.referred : Resolves(r, union_idents.defined)

\* ---------------------------------------------------------------------------
\* generate(): every definition once, in its own module
\* ---------------------------------------------------------------------------

\* How many items of the given kind the output holds for definition k.
Emissions(kind, k) ==
    Cardinality({m \in 1..Len(code_) : code_[m].kind = kind /\ code_[m].def = k})

\* C30: when generate() is finished the output holds every enum, fixed struct
\* and table not marked generated exactly once and no definition marked
\* generated, the root helpers once when a root type is designated and not at
\* all otherwise; every one of these items stands inside the modules of its
\* definition's namespace (each namespace is declared once).
C30_EachDefinitionOnce ==
    /\ \A m \in 1..Len(code_) :
           IsDefItem(code_[m]) =>
               StackFrom(SubSeq(code_, 1, m), 1, <<>>)
                   = ModulePath(ComponentsOf(parser_.namespaces_, NsOfItem(code_[m])))
    /\ pc = "done" =>
           /\ \A k \in 1..Len(parser_.enums_) :
                  Emissions("enum", k) = Bit(~parser_.enums_[k].generated)
           /\ \A k \in 1..Len(parser_.structs_) :
                  LET sd == parser_.structs_[k]
                  IN  /\ Emissions("struct", k) = Bit(sd.fixed /\ ~sd.generated)
                      /\ Emissions("table", k) = Bit(~sd.fixed /\ ~sd.generated)
                      /\ Emissions("root", k) = Bit(k = parser_.root_struct_def_)
           /\ Cardinality({m \in 1..Len(code_) : code_[m].kind = "root"})
                  = Bit(parser_.root_struct_def_ # 0)

\* A finished run over an enum, a table marked generated and the root table,
\* declared in three namespaces.
C30_Witness ==
    /\ pc = "done"
    /\ Len(parser_.enums_) = 1 /\ Len(parser_.structs_) = 2
    /\ parser_.root_struct_def_ # 0
    /\ \E k \in 1..2 : parser_.structs_[k].generated
    /\ parser_.enums_[1].defined_namespace
           # parser_.structs_[parser_.root_struct_def_].defined_namespace
    /\ Len(SelectSeq(code_, IsDefItem)) = 3
    /\ Emissions("root", parser_.root_struct_def_) = 1

====
